---- MODULE Spec2Model ----
(***************************************************************************)
(* SpiralBot v2.1: the simulation engine of bue_flashbot_virtual.py        *)
(* (BotManager: event log, entries, exits, ledger, cycle loop) and the     *)
(* dashboard's access to the same event log (sb_dashboard.py).             *)
(*                                                                         *)
(* Numbers.  The program computes in binary floating point.  Here          *)
(*   - a rate (0.02, 0.001, ...) is held in basis points, rate*RateScale;  *)
(*   - cash, trade values, fees and P&L are held in units of 1/MoneyScale  *)
(*     of the currency, a product with a rate rounded down to that unit;   *)
(*   - a price is a whole number of 1e-8 currency units (the coins of    *)
(*     the feed quoted around 0.00001), so that round(x, 8) rounds to a    *)
(*     whole price unit;                                                   *)
(*   - a quantity (net_trade_value / price) is held as that exact          *)
(*     fraction [n, d], so quantity * p is (n * p) / d;                    *)
(*   - the adjustment factors of the fair value are held in parts per      *)
(*     million, a quotient rounded down to that unit;                      *)
(*   - delta (a percentage) is held as the exact fraction [n, d].          *)
(* Comparisons between products are made by cross-multiplication, so they  *)
(* are the comparisons of the real numbers the floats stand for.           *)
(***************************************************************************)
EXTENDS Integers, Sequences, FiniteSets, TLC

VARIABLES
    cash,             \* BotManager.cash
    portfolio_value,  \* BotManager.portfolio_value (the stored equity)
    positions,        \* BotManager.positions: insertion-ordered, one entry per key
    state_saved,      \* BotManager.state_saved
    price_history,    \* BotManager.price_history: symbol -> list of prices
    fed,              \* symbol -> every price passed to calculate_bue_value (observation)
    env,              \* the settings read from the environment at import
    prices,           \* BotManager.prices: the price map of the running cycle
    store,            \* LOG_FILE: [exists, lines]
    lock,             \* who holds the flock on LOG_FILE
    now,              \* wall clock, seconds
    pc,               \* run_simulation: "fetch" (top of the loop) or "symbols"
    todo,             \* run_simulation: the entries of self.prices still to process
    closes,           \* closures processed since the cycle's fetch (observation)
    steps,            \* operations performed so far (bounds the run)
    last,             \* the last operation: its arguments, results and pre-state
    proc,             \* the engine process: the frame of run_simulation, the frame
                      \* of graceful_shutdown, and whether the process has exited
    dash              \* the dashboard process: the call it is in and where

vars == <<cash, portfolio_value, positions, state_saved, price_history, fed, env,
          prices, store, lock, now, pc, todo, closes, steps, last, proc, dash>>

-----------------------------------------------------------------------------
(* Configuration, bue_flashbot_virtual.py:32-41 (defaults of the           *)
(* environment-driven settings unless said otherwise).                     *)

RateScale == 10000
MoneyScale == 10000

RISK_PER_TRADE == 500          \* 0.05
SCAN_INTERVAL == 30
TRADE_DURATION == 300
TRAILING_STOP_PCT == 200       \* 0.02
STOP_LOSS_PCT == 300           \* 0.03
TAKE_PROFIT_PCT == 500         \* 0.05
FEE_PCT == 10                  \* 0.001
\* MAX_POSITIONS is read from the environment (default 3); the model runs the
\* configuration MAX_POSITIONS=2 so that a third symbol meets the limit.
MAX_POSITIONS == 2
MIN_TRADE == 10                \* "if trade_value < 10"
\* PORTFOLIO_INITIAL is read from the environment: the default 1000.0, and a
\* small account whose 5% trade value is under the minimum trade size.
PortfolioInitials == {1000 * MoneyScale, 150 * MoneyScale}

\* os.getenv('RISK_PER_TRADE', 0.05), os.getenv('FEE_PCT', 0.001),
\* os.getenv('TRADE_DURATION', 300), os.getenv('TRAILING_STOP_PCT', 0.02),
\* os.getenv('STOP_LOSS_PCT', 0.03): the defaults, and a run started with
\* RISK_PER_TRADE=0.1 and FEE_PCT=0.
DefaultEnv == [RISK_PER_TRADE |-> RISK_PER_TRADE, FEE_PCT |-> FEE_PCT,
               TRADE_DURATION |-> TRADE_DURATION,
               TRAILING_STOP_PCT |-> TRAILING_STOP_PCT,
               STOP_LOSS_PCT |-> STOP_LOSS_PCT]
EnvChoices == {DefaultEnv, [DefaultEnv EXCEPT !.RISK_PER_TRADE = 1000, !.FEE_PCT = 0]}

session_id == "S1"

\* Bounds of the model: operations per run, cycles per run
MaxSteps == 4
MaxCycles == 2

Symbols == {"BTC", "ETH", "SOL"}

-----------------------------------------------------------------------------
(* The event log: log_to_csv, bue_flashbot_virtual.py:234-294              *)

\* LOG_FILE: whether it exists, and its lines
NoFile == [exists |-> FALSE, lines |-> <<>>]
File(lines) == [exists |-> TRUE, lines |-> lines]

header == <<"session_id", "timestamp", "symbol", "price", "bue", "delta",
            "signal", "value_estimate", "action", "pnl", "close_reason", "equity">>

\* A header written by another version of the program (a column renamed).
foreign_header == <<"session_id", "timestamp", "symbol", "price", "bue", "delta",
                    "signal", "value_estimate", "action", "pnl", "reason", "equity">>

\* "Ensure session_id is properly formatted"
NormaliseRow(row_data) ==
    IF Len(row_data) = Len(header) - 1 THEN <<session_id>> \o row_data
    ELSE IF Len(row_data) = Len(header) /\ row_data[1] # session_id
         THEN [row_data EXCEPT ![1] = session_id]
         ELSE row_data

\* What the operating system does to one call: the first "upto" attempts meet
\* the failure "kind" (open: open() raises; flock: flock() raises; write: the
\* write raises), the later attempts meet none.
FaultKinds == {"open", "flock", "write"}
NoFault == [kind |-> "none", upto |-> 0]
FaultPlans == {NoFault}
              \cup {[kind |-> k, upto |-> n] : k \in FaultKinds, n \in 1..3}
FaultAt(plan, attempt) == IF attempt <= plan.upto THEN plan.kind ELSE "none"

\* A file object opened with this mode can be read from.
Readable(mode) == mode \in {"r", "r+", "w+", "a+"}

\* fcntl.flock(file, LOCK_EX) / LOCK_UN by the engine's file object
FlockEx(lk) == "engine"
FlockUn(lk) == IF lk = "engine" THEN "free" ELSE lk
\* Leaving "with open(...) as file": the file is closed, which drops its lock.
CloseFileKeepsLock(lk) == lk
CloseFile(lk) == IF lk = "engine" THEN "free" ELSE lk

\* next(csv.reader(file), None) after file.seek(0): the first line, or None
FirstLine(st) == IF Len(st.lines) = 0 THEN <<>> ELSE st.lines[1]

\* The mode log_to_csv opens LOG_FILE with for the append.
AppendMode == "a"

\* "for attempt in range(3)"
MAX_ATTEMPTS == 3

\* One pass of the body of "for attempt in range(3)": [kind, store, lock]
\*   kind "ok": the row was written; "mismatch": return False;
\*   "error": an exception reached "except Exception".
FileAttempt(st, lk, row, fault) ==
    IF fault = "open"
    THEN [kind |-> "error", store |-> st, lock |-> lk]
    ELSE IF fault = "flock"
    THEN [kind |-> "error", store |-> st, lock |-> CloseFile(lk)]
    ELSE LET held == FlockEx(lk) IN
         IF ~Readable(AppendMode)
         THEN \* next(reader): io.UnsupportedOperation, not readable
              [kind |-> "error", store |-> st, lock |-> CloseFile(held)]
         ELSE IF FirstLine(st) # header
         THEN [kind |-> "mismatch", store |-> st, lock |-> CloseFile(FlockUn(held))]
         ELSE IF fault = "write"
         THEN [kind |-> "error", store |-> st, lock |-> CloseFile(held)]
         ELSE [kind |-> "ok", store |-> File(Append(st.lines, row)),
               lock |-> CloseFile(FlockUn(held))]

\* The retry loop: [ok, store, lock, attempts, saved]
LogLoopNoRetry(st, lk, row, faults, attempt) ==
    LET a == FileAttempt(st, lk, row, FaultAt(faults, attempt))
    IN [ok |-> a.kind = "ok", store |-> a.store, lock |-> a.lock,
        attempts |-> attempt, saved |-> a.kind = "ok"]
RECURSIVE LogLoop(_, _, _, _, _)
LogLoop(st, lk, row, faults, attempt) ==
    IF attempt > MAX_ATTEMPTS
    THEN [ok |-> FALSE, store |-> st, lock |-> lk, attempts |-> MAX_ATTEMPTS,
          saved |-> FALSE]
    ELSE LET a == FileAttempt(st, lk, row, FaultAt(faults, attempt)) IN
         IF a.kind = "ok"
         THEN [ok |-> TRUE, store |-> a.store, lock |-> a.lock,
               attempts |-> attempt, saved |-> TRUE]
         ELSE IF a.kind = "mismatch"
         THEN [ok |-> FALSE, store |-> a.store, lock |-> a.lock,
               attempts |-> attempt, saved |-> FALSE]
         ELSE LogLoop(a.store, a.lock, row, faults, attempt + 1)

\* "if not LOG_FILE.exists(): with open(LOG_FILE, 'w', newline='') as file:
\* writer.writerow(header)"
EnsureInitializedRewrites(st) == File(<<header>>)
EnsureInitialized(st) == IF ~st.exists THEN File(<<header>>) ELSE st

\* log_to_csv(row_data): create the file with the header if it is absent
\* (create = FALSE: the target cannot be written), then the retry loop.
log_to_csv(st, lk, row_data, create, faults) ==
    LET row == NormaliseRow(row_data) IN
    IF ~st.exists /\ ~create
    THEN [ok |-> FALSE, store |-> st, lock |-> lk, attempts |-> 0,
          saved |-> FALSE, row |-> row]
    ELSE LET r == LogLoop(EnsureInitialized(st), lk, row, faults, 1)
         IN [ok |-> r.ok, store |-> r.store, lock |-> r.lock,
             attempts |-> r.attempts, saved |-> r.saved, row |-> row]

\* Every way one call of log_to_csv can end, over what the operating system does.
LogOutcomes(st, lk, row_data) ==
    { log_to_csv(st, lk, row_data, c, f) :
        c \in (IF st.exists THEN {TRUE} ELSE BOOLEAN), f \in FaultPlans }

-----------------------------------------------------------------------------
(* The engine's state as the handlers pass it along: cash, pv                *)
(* (portfolio_value), positions, saved (state_saved), store, lock, and log:  *)
(* the calls of log_to_csv the handler has made, [row, ok, attempts] each.   *)

Engine == [cash |-> cash, pv |-> portfolio_value, positions |-> positions,
           saved |-> state_saved, store |-> store, lock |-> lock, log |-> <<>>]

\* self.log_to_csv(row_data) inside a handler
Log(E, row_data) ==
    { [E EXCEPT !.store = r.store, !.lock = r.lock, !.saved = E.saved \/ r.saved,
                !.log = Append(E.log, [row |-> r.row, ok |-> r.ok,
                                       attempts |-> r.attempts])] :
      r \in LogOutcomes(E.store, E.lock, row_data) }

LastOk(E) == E.log[Len(E.log)].ok

\* x * rate, the rate in basis points, rounded down to the money unit
\* (whole and fractional part of x / RateScale multiplied apart: the same number)
MulRate(x, rate) ==
    (x \div RateScale) * rate + ((x % RateScale) * rate) \div RateScale

\* quantity * price, the quantity the fraction n/d
QtyTimes(q, p) == (q.n * p) \div q.d

\* A price map is a sequence of <<symbol, price>> in the order of the feed.
HasKey(pm, sym) == \E i \in 1..Len(pm) : pm[i][1] = sym
\* current_prices.get(symbol, default)
PGetNoDefault(pm, sym, default) ==
    IF HasKey(pm, sym) THEN pm[CHOOSE i \in 1..Len(pm) : pm[i][1] = sym][2]
    ELSE 0
PGet(pm, sym, default) ==
    IF HasKey(pm, sym) THEN pm[CHOOSE i \in 1..Len(pm) : pm[i][1] = sym][2]
    ELSE default

\* symbol in self.positions
HasPos(ps, sym) == \E i \in 1..Len(ps) : ps[i].symbol = sym
PosOf(ps, sym) == ps[CHOOSE i \in 1..Len(ps) : ps[i].symbol = sym]
\* self.positions[symbol] = pos: a present key keeps its place, a new one is last
DictSet(ps, pos) ==
    IF HasPos(ps, pos.symbol)
    THEN [i \in 1..Len(ps) |-> IF ps[i].symbol = pos.symbol THEN pos ELSE ps[i]]
    ELSE Append(ps, pos)
\* del self.positions[symbol]
DictDelKeeps(ps, sym) == ps
DictDel(ps, sym) == SelectSeq(ps, LAMBDA q : q.symbol # sym)

\* calculate_equity, bue_flashbot_virtual.py:416-431
UnrealizedOf(pos, pm) ==
    LET current_price == PGet(pm, pos.symbol, pos.entry_price) IN
    IF pos.side = "BUY"
    THEN QtyTimes(pos.quantity, current_price) - pos.trade_value
    ELSE pos.trade_value - QtyTimes(pos.quantity, current_price)

RECURSIVE SumUnrealized(_, _, _)
SumUnrealized(ps, pm, i) ==
    IF i > Len(ps) THEN 0 ELSE UnrealizedOf(ps[i], pm) + SumUnrealized(ps, pm, i + 1)

calculate_equity(E, current_prices) ==
    [E EXCEPT !.pv = E.cash + SumUnrealized(E.positions, current_prices, 1)]

\* "if amount <= 0" (deposit_funds and make_deposit_transaction)
InvalidAmountNegativeOnly(amount) == amount < 0
InvalidAmount(amount) == amount <= 0

\* deposit_funds, bue_flashbot_virtual.py:296-314
deposit_funds(E, amount, t) ==
    IF InvalidAmount(amount)
    THEN {[e |-> E, ret |-> FALSE]}
    ELSE LET E1 == [E EXCEPT !.cash = @ + amount, !.pv = @ + amount]
             deposit_row == <<session_id, t, "SYSTEM", 0, 0, 0, "DEPOSIT",
                              amount, "DEPOSIT", 0, "N/A", E1.pv>>
         IN {[e |-> E2, ret |-> LastOk(E2)] : E2 \in Log(E1, deposit_row)}

\* The pre-trade checks of execute_trade, in the order of the code; "" when the
\* trade goes ahead.
MaxPositionsReachedNever(ps) == FALSE
MaxPositionsReached(ps) == Len(ps) >= MAX_POSITIONS

\* "Calculate trade size": self.cash * RISK_PER_TRADE
TradeValueOf(c) == MulRate(c, env.RISK_PER_TRADE)
\* "if trade_value < 10"
BelowMinTradeNever(trade_value) == FALSE
BelowMinTrade(trade_value) == trade_value < MIN_TRADE * MoneyScale
\* "Update cash": what self.cash -= ... takes off
EntryDebitNet(trade_value, fee) == trade_value - fee
EntryDebitGross(trade_value, fee) == trade_value + fee
EntryDebit(trade_value, fee) == trade_value

Rejection(E, symbol, signal) ==
    IF signal \notin {"BUY", "SELL"} THEN "signal"
    ELSE IF MaxPositionsReached(E.positions) THEN "max_positions"
    ELSE IF HasPos(E.positions, symbol) THEN "exists"
    ELSE IF BelowMinTrade(TradeValueOf(E.cash)) THEN "min_trade"
    ELSE ""

\* execute_trade, bue_flashbot_virtual.py:316-370
execute_trade(E, symbol, signal, price, delta, t) ==
    IF Rejection(E, symbol, signal) # ""
    THEN {[e |-> E, ret |-> FALSE]}
    ELSE LET trade_value == TradeValueOf(E.cash)
             fee == MulRate(trade_value, env.FEE_PCT)
             net_trade_value == trade_value - fee
             quantity == [n |-> net_trade_value, d |-> price]
             pos == [symbol |-> symbol, entry_price |-> price, quantity |-> quantity,
                     timestamp |-> t, peak_price |-> price, side |-> signal,
                     trade_value |-> net_trade_value]
             E1 == [E EXCEPT !.positions = DictSet(@, pos),
                             !.cash = @ - EntryDebit(trade_value, fee)]
             E2 == calculate_equity(E1, <<<<symbol, price>>>>)
             trade_row == <<session_id, t, symbol, price, 0, delta, signal,
                            net_trade_value, "OPEN", 0, "N/A", E2.pv>>
         IN {[e |-> E3, ret |-> LastOk(E3)] : E3 \in Log(E2, trade_row)}

\* close_position, bue_flashbot_virtual.py:372-414
close_position(E, symbol, current_price, reason, t) ==
    IF ~HasPos(E.positions, symbol)
    THEN {[e |-> E, ret |-> <<0, "NONE", reason>>]}
    ELSE LET pos == PosOf(E.positions, symbol)
             side == pos.side
             proceeds == IF side = "BUY" THEN QtyTimes(pos.quantity, current_price)
                         ELSE pos.trade_value
             pnl == IF side = "BUY" THEN proceeds - pos.trade_value
                    ELSE proceeds - QtyTimes(pos.quantity, current_price)
             exit_fee == MulRate(proceeds, env.FEE_PCT)
             net_pnl == pnl - exit_fee
             action == IF side = "BUY" THEN "CLOSE_BUY" ELSE "CLOSE_SELL"
             E1 == [E EXCEPT !.cash = @ + proceeds - exit_fee]
             E2 == calculate_equity(E1, <<<<symbol, current_price>>>>)
             close_row == <<session_id, t, symbol, current_price, 0, 0, action,
                            proceeds, action, net_pnl, reason, E2.pv>>
         IN {[e |-> [E3 EXCEPT !.positions = DictDel(@, symbol)],
              ret |-> <<net_pnl, action, reason>>] : E3 \in Log(E2, close_row)}

\* manage_positions, bue_flashbot_virtual.py:433-478
\* "Update peak price for trailing stops"
UpdatePeakFollows(pos, current_price) == [pos EXCEPT !.peak_price = current_price]
UpdatePeak(pos, current_price) ==
    IF pos.side = "BUY"
    THEN [pos EXCEPT !.peak_price = IF @ >= current_price THEN @ ELSE current_price]
    ELSE [pos EXCEPT !.peak_price = IF @ <= current_price THEN @ ELSE current_price]

\* The four exit conditions, on the position with its peak updated.
\* price <= base * (1 - pct)   and   price >= base * (1 + pct)
AtOrBelow(price, base, pct) == price * RateScale <= base * (RateScale - pct)
AtOrAbove(price, base, pct) == price * RateScale >= base * (RateScale + pct)

TrailingHit(pos, p) ==
    \/ pos.side = "BUY" /\ AtOrBelow(p, pos.peak_price, env.TRAILING_STOP_PCT)
    \/ pos.side = "SELL" /\ AtOrAbove(p, pos.peak_price, env.TRAILING_STOP_PCT)
StopLossHit(pos, p) ==
    \/ pos.side = "BUY" /\ AtOrBelow(p, pos.entry_price, env.STOP_LOSS_PCT)
    \/ pos.side = "SELL" /\ AtOrAbove(p, pos.entry_price, env.STOP_LOSS_PCT)
TakeProfitHit(pos, p) ==
    \/ pos.side = "BUY" /\ AtOrAbove(p, pos.entry_price, TAKE_PROFIT_PCT)
    \/ pos.side = "SELL" /\ AtOrBelow(p, pos.entry_price, TAKE_PROFIT_PCT)
TimedHitNever(pos, t) == FALSE
TimedHit(pos, t) == t - pos.timestamp >= env.TRADE_DURATION

\* "Check exit conditions": the reason of the first condition met, or "NONE"
ExitReasonStopFirst(pos, p, t) ==
    IF StopLossHit(pos, p) THEN "STOP_LOSS"
    ELSE IF TrailingHit(pos, p) THEN "TRAILING_STOP"
    ELSE IF TakeProfitHit(pos, p) THEN "TAKE_PROFIT"
    ELSE IF TimedHit(pos, t) THEN "TIMED_EXIT"
    ELSE "NONE"
ExitReason(pos, p, t) ==
    IF TrailingHit(pos, p) THEN "TRAILING_STOP"
    ELSE IF StopLossHit(pos, p) THEN "STOP_LOSS"
    ELSE IF TakeProfitHit(pos, p) THEN "TAKE_PROFIT"
    ELSE IF TimedHit(pos, t) THEN "TIMED_EXIT"
    ELSE "NONE"

\* "for symbol in list(self.positions.keys())", from the i-th key on
RECURSIVE ManageFromNoReturn(_, _, _, _, _)
ManageFromNoReturn(E, keys, i, current_prices, t) ==
    IF i > Len(keys)
    THEN {[e |-> E, ret |-> <<0, "NONE", "N/A">>]}
    ELSE LET symbol == keys[i]
             pos0 == PosOf(E.positions, symbol)
             current_price == PGet(current_prices, symbol, pos0.entry_price)
             pos == UpdatePeak(pos0, current_price)
             E1 == [E EXCEPT !.positions = DictSet(@, pos)]
             reason == ExitReason(pos, current_price, t)
         IN IF reason # "NONE"
            THEN UNION { { [e |-> n.e, ret |-> c.ret] :
                           n \in ManageFromNoReturn(c.e, keys, i + 1, current_prices, t) } :
                         c \in close_position(E1, symbol, current_price, reason, t) }
            ELSE ManageFromNoReturn(E1, keys, i + 1, current_prices, t)

RECURSIVE ManageFrom(_, _, _, _, _)
ManageFrom(E, keys, i, current_prices, t) ==
    IF i > Len(keys)
    THEN {[e |-> E, ret |-> <<0, "NONE", "N/A">>]}
    ELSE LET symbol == keys[i]
             pos0 == PosOf(E.positions, symbol)
             current_price == PGet(current_prices, symbol, pos0.entry_price)
             pos == UpdatePeak(pos0, current_price)
             E1 == [E EXCEPT !.positions = DictSet(@, pos)]
             reason == ExitReason(pos, current_price, t)
         IN IF reason # "NONE"
            THEN close_position(E1, symbol, current_price, reason, t)
            ELSE ManageFrom(E1, keys, i + 1, current_prices, t)

Keys(ps) == [i \in 1..Len(ps) |-> ps[i].symbol]

manage_positions(E, current_prices, t) ==
    IF Len(E.positions) = 0
    THEN {[e |-> E, ret |-> <<0, "NONE", "N/A">>]}
    ELSE ManageFrom(E, Keys(E.positions), 1, current_prices, t)

-----------------------------------------------------------------------------
(* Signal generation, bue_flashbot_virtual.py:173-232                      *)

PPM == 1000000
HISTORY_MAX == 20
MIN_SAMPLES == 5
TREND_SAMPLES == 10
MOMENTUM_WEIGHT == 150000      \* 0.15
VOLATILITY_WEIGHT == 80000     \* 0.08
VOLATILITY_CAP == 30000        \* 0.03
NOISE_MAX == 8000              \* random.uniform(-0.008, 0.008)

RECURSIVE SumSeq(_)
SumSeq(q) == IF Len(q) = 0 THEN 0 ELSE Head(q) + SumSeq(Tail(q))
RECURSIVE MaxSeq(_)
MaxSeq(q) == IF Len(q) = 1 THEN q[1]
             ELSE LET m == MaxSeq(Tail(q)) IN IF q[1] >= m THEN q[1] ELSE m
RECURSIVE MinSeq(_)
MinSeq(q) == IF Len(q) = 1 THEN q[1]
             ELSE LET m == MinSeq(Tail(q)) IN IF q[1] <= m THEN q[1] ELSE m
\* q[-k:]
LastK(q, k) == SubSeq(q, Len(q) - k + 1, Len(q))

\* round(n / d) to a whole number, halves to the even neighbour (n >= 0, d > 0)
RoundHalfEven(n, d) ==
    LET q == n \div d
        r == n % d
    IN IF 2 * r > d THEN q + 1
       ELSE IF 2 * r < d THEN q
       ELSE IF q % 2 = 0 THEN q ELSE q + 1

\* self.price_history[symbol] after the append and the eviction
PushPriceNoEviction(h, current_price) == Append(h, current_price)
PushPrice(h, current_price) ==
    LET h1 == Append(h, current_price) IN
    IF Len(h1) > HISTORY_MAX THEN Tail(h1) ELSE h1

MomentumFactor(h) ==
    IF Len(h) >= TREND_SAMPLES
    THEN LET recent == SumSeq(LastK(h, 5))
             older == SumSeq(SubSeq(h, Len(h) - 9, Len(h) - 5))
         IN IF older > 0 THEN ((recent - older) * MOMENTUM_WEIGHT) \div older ELSE 0
    ELSE 0

VolatilityFactor(h, current_price) ==
    IF Len(h) >= TREND_SAMPLES
    THEN LET recent_prices == LastK(h, 10)
             price_range == MaxSeq(recent_prices) - MinSeq(recent_prices)
         IN IF current_price > 0
            THEN LET v == (price_range * VOLATILITY_WEIGHT) \div current_price
                 IN IF v > VOLATILITY_CAP THEN VOLATILITY_CAP
                    ELSE IF v < -VOLATILITY_CAP THEN -VOLATILITY_CAP ELSE v
            ELSE 0
    ELSE 0

\* "Insufficient data - return current price"
InsufficientDataNever(h) == FALSE
InsufficientData(h) == Len(h) < MIN_SAMPLES

\* calculate_bue_value: [history, bue] for the symbol's history h before the call
calculate_bue_value(h, current_price, random_component) ==
    LET h1 == PushPrice(h, current_price) IN
    IF InsufficientData(h1)
    THEN [history |-> h1, bue |-> current_price]
    ELSE LET total_adjustment == MomentumFactor(h1)
                                 + VolatilityFactor(h1, current_price)
                                 + random_component
         IN [history |-> h1,
             bue |-> RoundHalfEven(current_price * (PPM + total_adjustment), PPM)]

\* delta, a percentage, as the fraction n/d (d > 0)
ZeroDelta == [n |-> 0, d |-> 1]
\* delta > x/10 and delta < -x/10
DeltaAtOrAbove(delta, tenths) == delta.n * 10 >= tenths * delta.d
DeltaAbove(delta, tenths) == delta.n * 10 > tenths * delta.d
DeltaBelow(delta, tenths) == delta.n * 10 < (0 - tenths) * delta.d
AbsDeltaAbove(delta, tenths) == DeltaAbove(delta, tenths) \/ DeltaBelow(delta, tenths)

SIGNAL_THRESHOLD == 12         \* 1.2
EXECUTION_THRESHOLD == 15      \* 1.5

\* generate_signal
generate_signal(current_price, bue_value) ==
    IF current_price <= 0
    THEN [signal |-> "HOLD", delta |-> ZeroDelta]
    ELSE LET delta == [n |-> (bue_value - current_price) * 100, d |-> current_price]
         IN IF DeltaAbove(delta, SIGNAL_THRESHOLD) THEN [signal |-> "BUY", delta |-> delta]
            ELSE IF DeltaBelow(delta, SIGNAL_THRESHOLD)
            THEN [signal |-> "SELL", delta |-> delta]
            ELSE [signal |-> "HOLD", delta |-> delta]

-----------------------------------------------------------------------------
(* One pass of "for symbol, price in self.prices.items()",                 *)
(* bue_flashbot_virtual.py:534-565                                         *)

\* "Execute trades on strong signals"
StrongSignalAnyDelta(sg) == sg.signal \in {"BUY", "SELL"}
StrongSignal(sg) ==
    sg.signal \in {"BUY", "SELL"} /\ AbsDeltaAbove(sg.delta, EXECUTION_THRESHOLD)

\* (self.cash / len(self.prices)) * (1 + delta / 100)
ValueEstimate(c, n_prices, delta) ==
    LET share == c \div n_prices IN share + ((share \div 100) * delta.n) \div delta.d

\* The scan row and its append, after manage_positions returned m
ScanStep(m, all_prices, symbol, price, bue_value, sg, value_estimate, entered, t) ==
    LET E1 == calculate_equity(m.e, all_prices)
        scan_row == <<session_id, t, symbol, price, bue_value, sg.delta, sg.signal,
                      value_estimate,
                      IF m.ret[2] # "NONE" THEN m.ret[2] ELSE "SCAN",
                      m.ret[1], m.ret[3], E1.pv>>
    IN {[e |-> E2, res |-> m.ret, entered |-> entered, sg |-> sg, bue |-> bue_value,
         row |-> scan_row, closed |-> m.closed] : E2 \in Log(E1, scan_row)}

process_symbol(E, b, all_prices, symbol, price, t) ==
    LET sg == generate_signal(price, b.bue)
        value_estimate == ValueEstimate(E.cash, Len(all_prices), sg.delta)
        entered == StrongSignal(sg)
        after_entry == IF entered
                       THEN execute_trade(E, symbol, sg.signal, price, sg.delta, t)
                       ELSE {[e |-> E, ret |-> FALSE]}
    IN UNION { UNION { ScanStep(m, all_prices, symbol, price, b.bue, sg,
                                value_estimate, entered, t) :
                       m \in { [e |-> y.e, ret |-> y.ret,
                                 closed |-> Len(x.e.positions) - Len(y.e.positions)] :
                                y \in manage_positions(x.e, all_prices, t) } } :
               x \in after_entry }

-----------------------------------------------------------------------------
(* State, observation and initial states                                   *)

Pre == [cash |-> cash, pv |-> portfolio_value, positions |-> positions,
        saved |-> state_saved, store |-> store, lock |-> lock, now |-> now]

NoRes == <<0, "NONE", "N/A">>

\* The record of an operation before its fields are filled in.
Blank == [op |-> "", sym |-> "", sig |-> "", price |-> 0, delta |-> ZeroDelta,
          amount |-> 0, reason |-> "", pm |-> <<>>, row |-> <<>>, ok |-> FALSE,
          res |-> NoRes, entered |-> FALSE, log |-> <<>>, fault |-> NoFault,
          create |-> TRUE, ret |-> 0, random_component |-> 0, pre |-> Pre]

\* The handler's engine state becomes the object's fields.
Commit(E) ==
    /\ cash' = E.cash
    /\ portfolio_value' = E.pv
    /\ positions' = E.positions
    /\ state_saved' = E.saved
    /\ store' = E.store
    /\ lock' = E.lock

\* A frame of the engine process: where it is (at), and, while it is inside
\* log_to_csv, the statement to go on with after the call (ret), the attempt of
\* the retry loop, the row, and the value the call returned (ok).
NoFrame == [at |-> "none", ret |-> "", attempt |-> 0, ok |-> FALSE, row |-> <<>>]

\* The locals of one pass of the for statement of run_simulation: the symbol and
\* its price, the fair value and the signal, what the entry will leave (plan),
\* what manage_positions returned (res) and the symbol being closed.
NoJob == [sym |-> "", price |-> 0, bue |-> 0, sig |-> "HOLD", delta |-> ZeroDelta,
          value_estimate |-> 0, entered |-> FALSE,
          plan |-> [cash |-> 0, pv |-> 0, positions |-> <<>>, row |-> <<>>],
          res |-> NoRes, closing |-> ""]

\* The engine process at the top of "while True": no signal received; debited
\* and credited (observation) are the symbols of the open positions whose
\* notional has been taken off cash, and of those whose close has been added
\* to cash.
ProcStart == [main |-> [NoFrame EXCEPT !.at = "fetch"], job |-> NoJob,
              handler |-> NoFrame, signalled |-> FALSE, stopped |-> FALSE,
              saved_at_signal |-> FALSE, shutdown_rows |-> 0,
              debited |-> {}, credited |-> {}]

\* The dashboard process between two calls: the call it is in (op), the step of
\* make_deposit_transaction (phase), the mode and the place inside
\* safe_file_operation (mode, at), the tenths of a second spent in its retry
\* loop (waited), the amount, the equity read, why safe_file_operation yielded
\* None (none), and what the last call returned (result).
DashIdle == [op |-> "idle", phase |-> "", mode |-> "", at |-> "", waited |-> 0,
             amount |-> 0, equity |-> 0, none |-> "", result |-> ""]

\* BotManager.__init__, bue_flashbot_virtual.py:86-100
InitEngine(c, st) ==
    /\ dash = DashIdle
    /\ cash = c
    /\ portfolio_value = c
    /\ positions = <<>>
    /\ state_saved = FALSE
    /\ prices = <<>>
    /\ store = st
    /\ lock = "free"
    /\ now = 0
    /\ pc = "fetch"
    /\ todo = <<>>
    /\ closes = 0
    /\ steps = 0
    /\ last = [op |-> "init", sym |-> "", sig |-> "", price |-> 0, delta |-> ZeroDelta,
               amount |-> 0, reason |-> "", pm |-> <<>>, row |-> <<>>, ok |-> FALSE,
               res |-> NoRes, entered |-> FALSE, log |-> <<>>, fault |-> NoFault,
               create |-> TRUE, ret |-> 0, random_component |-> 0,
               pre |-> [cash |-> c, pv |-> c, positions |-> <<>>, saved |-> FALSE,
                        store |-> st, lock |-> "free", now |-> 0]]

-----------------------------------------------------------------------------
(* The dashboard's deposit: make_deposit_transaction, sb_dashboard.py:226-271, *)
(* with safe_file_operation (68-92) and load_trading_data (94-125).  The       *)
(* dashboard is another process: it shares LOG_FILE with the engine, nothing   *)
(* else.                                                                       *)

\* session_id of the dashboard's record (sb_dashboard.py:250)
dashboard_session == "D1"
\* "... if not current_df.empty else 1000.0"
DASHBOARD_EQUITY_DEFAULT == 1000

\* safe_file_operation(LOG_FILE, mode): TRUE when the file object is yielded.
\* The flock is non-blocking; a lock held by the engine, or an open() that keeps
\* failing (io_ok = FALSE), ends in the timeout and None.
SafeOpen(st, lk, mode, io_ok) ==
    /\ (st.exists \/ mode \in {"w", "a"})
    /\ lk = "free"
    /\ io_ok

\* load_trading_data(): the data rows of the file, sorted by timestamp (rows of
\* equal timestamp keep the order of the file); none when the file is absent,
\* cannot be locked, or is empty.
DataRows(st) == IF Len(st.lines) <= 1 THEN <<>> ELSE Tail(st.lines)
RECURSIVE LatestRow(_)
LatestRow(rows) ==
    IF Len(rows) = 1 THEN rows[1]
    ELSE LET rest == LatestRow(Tail(rows))
         IN IF rows[1][2] > rest[2] THEN rows[1] ELSE rest
\* current_df['equity'].iloc[-1] if not current_df.empty else 1000.0
CurrentEquity(st, lk) ==
    IF SafeOpen(st, lk, "r", TRUE) /\ Len(DataRows(st)) > 0
    THEN LatestRow(DataRows(st))[12]
    ELSE DASHBOARD_EQUITY_DEFAULT * MoneyScale

\* make_deposit_transaction(amount): [store, ret, row]; w_ok, a_ok: whether the
\* open for the header and the open for the append succeed.
make_deposit_transaction(st, lk, amount, t, w_ok, a_ok) ==
    IF InvalidAmount(amount)
    THEN [store |-> st, ret |-> FALSE, row |-> <<>>]
    ELSE LET st1 == IF ~st.exists /\ SafeOpen(st, lk, "w", w_ok)
                    THEN File(<<header>>) ELSE st
             new_equity == CurrentEquity(st1, lk) + amount
             deposit_row == <<dashboard_session, t, "SYSTEM", 0, 0, 0, "DEPOSIT",
                              amount, "DEPOSIT", 0, "N/A", new_equity>>
         IN IF SafeOpen(st1, lk, "a", a_ok)
            THEN [store |-> File(Append(st1.lines, deposit_row)), ret |-> TRUE,
                  row |-> deposit_row]
            ELSE [store |-> st1, ret |-> FALSE, row |-> <<>>]

-----------------------------------------------------------------------------
(* The operations of BotManager, called one after another                  *)

EntryPrices == {1000}
Deltas == {[n |-> 13, d |-> 10]}
Signals == {"BUY", "SELL", "HOLD"}
Amounts == {0 - 50 * MoneyScale, 0, 100 * MoneyScale}
ClosePrices == {1100}
Elapsed == {SCAN_INTERVAL, TRADE_DURATION}

SymbolOrder == <<"BTC", "ETH", "SOL">>
AllAt(p) == [i \in 1..Len(SymbolOrder) |-> <<SymbolOrder[i], p>>]
PriceMaps == {AllAt(900), AllAt(980), AllAt(1000), AllAt(1050),
              <<<<"ETH", 980>>>>, <<>>}

ExecuteTrade(symbol, signal, price, delta) ==
    /\ steps < MaxSteps
    /\ \E r \in execute_trade(Engine, symbol, signal, price, delta, now) :
         /\ Commit(r.e)
         /\ last' = [Blank EXCEPT !.op = "execute_trade", !.sym = symbol,
                                  !.sig = signal, !.price = price, !.delta = delta,
                                  !.ok = r.ret, !.log = r.e.log]
    /\ steps' = steps + 1
    /\ UNCHANGED <<price_history, fed, env, prices, now, pc, todo, closes>>
    /\ UNCHANGED <<proc, dash>>

ManagePositions(pm) ==
    /\ steps < MaxSteps
    /\ \E r \in manage_positions(Engine, pm, now) :
         /\ Commit(r.e)
         /\ last' = [Blank EXCEPT !.op = "manage_positions", !.pm = pm,
                                  !.res = r.ret, !.log = r.e.log]
    /\ steps' = steps + 1
    /\ UNCHANGED <<price_history, fed, env, prices, now, pc, todo, closes>>
    /\ UNCHANGED <<proc, dash>>

ClosePosition(symbol, price, reason) ==
    /\ steps < MaxSteps
    /\ \E r \in close_position(Engine, symbol, price, reason, now) :
         /\ Commit(r.e)
         /\ last' = [Blank EXCEPT !.op = "close_position", !.sym = symbol,
                                  !.price = price, !.reason = reason,
                                  !.res = r.ret, !.log = r.e.log]
    /\ steps' = steps + 1
    /\ UNCHANGED <<price_history, fed, env, prices, now, pc, todo, closes>>
    /\ UNCHANGED <<proc, dash>>

DepositFunds(amount) ==
    /\ steps < MaxSteps
    /\ \E r \in deposit_funds(Engine, amount, now) :
         /\ Commit(r.e)
         /\ last' = [Blank EXCEPT !.op = "deposit_funds", !.amount = amount,
                                  !.ok = r.ret, !.log = r.e.log]
    /\ steps' = steps + 1
    /\ UNCHANGED <<price_history, fed, env, prices, now, pc, todo, closes>>
    /\ UNCHANGED <<proc, dash>>

\* self.calculate_equity(current_prices), called on its own
CalculateEquity(pm) ==
    /\ steps < MaxSteps
    /\ LET E == calculate_equity(Engine, pm)
       IN /\ Commit(E)
          /\ last' = [Blank EXCEPT !.op = "calculate_equity", !.pm = pm, !.ret = E.pv]
    /\ steps' = steps + 1
    /\ UNCHANGED <<price_history, fed, env, prices, now, pc, todo, closes>>
    /\ UNCHANGED <<proc, dash>>

\* The dashboard's deposit button
MakeDepositTransaction(amount) ==
    /\ steps < MaxSteps
    /\ \E w_ok \in BOOLEAN, a_ok \in BOOLEAN :
         LET r == make_deposit_transaction(store, lock, amount, now, w_ok, a_ok)
         IN /\ store' = r.store
            /\ last' = [Blank EXCEPT !.op = "make_deposit_transaction",
                                     !.amount = amount, !.ok = r.ret, !.row = r.row]
    /\ steps' = steps + 1
    /\ UNCHANGED <<cash, portfolio_value, positions, state_saved, price_history,
                   fed, env, prices, lock, now, pc, todo, closes>>
    /\ UNCHANGED <<proc, dash>>

\* Time passes between two calls.
Tick(dt) ==
    /\ steps < MaxSteps
    /\ now' = now + dt
    /\ last' = [Blank EXCEPT !.op = "tick"]
    /\ steps' = steps + 1
    /\ UNCHANGED <<cash, portfolio_value, positions, state_saved, price_history,
                   fed, env, prices, store, lock, pc, todo, closes>>
    /\ UNCHANGED <<proc, dash>>

Init ==
    /\ proc = ProcStart
    /\ \E c \in PortfolioInitials : InitEngine(c, NoFile)
    /\ price_history = [s \in Symbols |-> <<>>]
    /\ fed = price_history
    /\ env = DefaultEnv

Next ==
    \/ \E symbol \in Symbols, signal \in Signals, price \in EntryPrices, delta \in Deltas :
         ExecuteTrade(symbol, signal, price, delta)
    \/ \E pm \in PriceMaps : ManagePositions(pm)
    \/ \E symbol \in Symbols, price \in ClosePrices : ClosePosition(symbol, price, "TAKE_PROFIT")
    \/ \E amount \in Amounts : DepositFunds(amount)
    \/ \E dt \in Elapsed : Tick(dt)

Spec == Init /\ [][Next]_vars

-----------------------------------------------------------------------------
(* The event log on its own: log_to_csv called with rows of either length, *)
(* on a log file in any of the conditions a start can find it in.          *)

old_row == <<"S0", 0, "SYSTEM", 0, 0, 0, "DEPOSIT", 100 * MoneyScale, "DEPOSIT",
             0, "N/A", 1100 * MoneyScale>>

StoreInputs == {NoFile, File(<<>>), File(<<header>>), File(<<header, old_row>>),
                File(<<foreign_header>>), File(<<foreign_header, old_row>>)}

RowInputs ==
    { <<session_id, 0, "SYSTEM", 0, 0, 0, "SHUTDOWN", 0, "SHUTDOWN", 0, "GRACEFUL",
        1000 * MoneyScale>>,
      <<"S0", 0, "SYSTEM", 0, 0, 0, "SHUTDOWN", 0, "SHUTDOWN", 0, "GRACEFUL",
        1000 * MoneyScale>>,
      <<0, "SYSTEM", 0, 0, 0, "SHUTDOWN", 0, "SHUTDOWN", 0, "GRACEFUL",
        1000 * MoneyScale>> }

LogToCsv(row_data) ==
    /\ steps < MaxSteps
    /\ \E create \in (IF store.exists THEN {TRUE} ELSE BOOLEAN), f \in FaultPlans :
         LET r == log_to_csv(store, lock, row_data, create, f) IN
         /\ store' = r.store
         /\ lock' = r.lock
         /\ state_saved' = (state_saved \/ r.saved)
         /\ last' = [Blank EXCEPT !.op = "log_to_csv", !.row = row_data, !.ok = r.ok,
                                  !.fault = f, !.create = create,
                                  !.log = <<[row |-> r.row, ok |-> r.ok,
                                             attempts |-> r.attempts]>>]
    /\ steps' = steps + 1
    /\ UNCHANGED <<cash, portfolio_value, positions, price_history, fed, env,
                   prices, now, pc, todo, closes>>
    /\ UNCHANGED <<proc, dash>>

InitLog ==
    /\ proc = ProcStart
    /\ \E st \in StoreInputs : InitEngine(1000 * MoneyScale, st)
    /\ price_history = [s \in Symbols |-> <<>>]
    /\ fed = price_history
    /\ env = DefaultEnv

NextLog ==
    \/ \E row_data \in RowInputs : LogToCsv(row_data)
    \/ \E amount \in Amounts : DepositFunds(amount)
    \/ \E dt \in Elapsed : Tick(dt)

SpecLog == InitLog /\ [][NextLog]_vars

-----------------------------------------------------------------------------
(* The ledger: entries at 100, exit evaluations at 98 and at 90, closes at  *)
(* 110, equity at 105 and deposits by the engine and by the dashboard,      *)
(* under the default settings and under RISK_PER_TRADE=0.1, FEE_PCT=0 (a    *)
(* trade of 100 out of 1000, quantity 1).                                   *)

LedgerSymbols == {"BTC", "ETH"}
LedgerEntryPrices == {100}
LedgerDeltas == {[n |-> 16, d |-> 10]}
LedgerClosePrices == {110}
BothAt(p) == <<<<"BTC", p>>, <<"ETH", p>>>>
LedgerPriceMaps == {BothAt(98), BothAt(90)}
EquityMaps == {<<<<"BTC", 105>>>>, <<>>}

InitLedger ==
    /\ proc = ProcStart
    /\ InitEngine(1000 * MoneyScale, File(<<header>>))
    /\ price_history = [s \in Symbols |-> <<>>]
    /\ fed = price_history
    /\ env \in EnvChoices

NextLedger ==
    \/ \E symbol \in LedgerSymbols, signal \in {"BUY", "SELL"},
          price \in LedgerEntryPrices, delta \in LedgerDeltas :
         ExecuteTrade(symbol, signal, price, delta)
    \/ \E pm \in LedgerPriceMaps : ManagePositions(pm)
    \/ \E symbol \in LedgerSymbols, price \in LedgerClosePrices :
         ClosePosition(symbol, price, "TAKE_PROFIT")
    \/ \E pm \in EquityMaps : CalculateEquity(pm)
    \/ \E amount \in Amounts : DepositFunds(amount)
    \/ \E amount \in Amounts : MakeDepositTransaction(amount)

SpecLedger == InitLedger /\ [][NextLedger]_vars

-----------------------------------------------------------------------------
(* The event log: claims                                                   *)

\* The last operation was a direct call of log_to_csv that met no failure of
\* the operating system.
LogCallNoFault == last.op = "log_to_csv" /\ last.fault = NoFault

\* C1: log_to_csv with a 12-field record, on a log file that exists and whose
\* first line is the expected header, appends exactly that one row at the end,
\* leaves the earlier lines as they were and reports success (returns True and
\* sets state_saved).
C1_AppendOnGoodHeader ==
    (/\ LogCallNoFault
     /\ Len(last.row) = Len(header)
     /\ last.pre.store.exists
     /\ FirstLine(last.pre.store) = header)
    => (/\ store = File(Append(last.pre.store.lines, last.log[1].row))
        /\ last.ok
        /\ state_saved)

\* C2: log_to_csv on a log file whose first line differs from the expected
\* header reports failure, writes no row, leaves the file as it was, and is not
\* retried: the mismatch ends the call on its first attempt.
C2_MismatchNotRetried ==
    (/\ LogCallNoFault
     /\ last.pre.store.exists
     /\ FirstLine(last.pre.store) # header)
    => (/\ ~last.ok
        /\ store = last.pre.store
        /\ last.log[1].attempts = 1)

\* C3: whatever the outcome of an append (a failure of open, flock or the write
\* on any attempt, failure after all retries, a file that could not be created),
\* the engine does not hold the lock on the log file once log_to_csv has returned.
C3_LockReleasedOnReturn ==
    Len(last.log) > 0 => lock # "engine"

\* C3 witness: an append has returned after all of its attempts failed, each of
\* them with the lock already taken, and the lock is free.
C3_Witness ==
    /\ LogCallNoFault
    /\ last.pre.store.exists
    /\ last.log[1].attempts = MAX_ATTEMPTS
    /\ ~last.ok
    /\ lock = "free"

\* The lines of the log file once log_to_csv has made sure it exists.
LinesOnEntry(st) == IF st.exists THEN st.lines ELSE <<header>>

\* C25: a call of log_to_csv that reaches its retry loop makes at least one and
\* at most MAX_ATTEMPTS attempts; an attempt that fails with an error of open,
\* flock or the write is followed by another attempt while fewer than
\* MAX_ATTEMPTS were made; and when the last of MAX_ATTEMPTS attempts has failed
\* the call returns False and no row has been added to the file.
C25_BoundedRetry ==
    (/\ last.op = "log_to_csv"
     /\ (last.pre.store.exists \/ last.create))
    => LET c == last.log[1] IN
       /\ c.attempts \in 1..MAX_ATTEMPTS
       /\ (last.fault.upto < MAX_ATTEMPTS => c.attempts > last.fault.upto)
       /\ (last.fault.upto >= MAX_ATTEMPTS => c.attempts = MAX_ATTEMPTS)
       /\ (c.attempts = MAX_ATTEMPTS /\ ~last.ok
             => store.lines = LinesOnEntry(last.pre.store))

\* C25 witness: open() raised on each of the three attempts of one call, which
\* returned False.
C25_Witness ==
    /\ last.op = "log_to_csv"
    /\ last.fault = [kind |-> "open", upto |-> MAX_ATTEMPTS]
    /\ last.log[1].attempts = MAX_ATTEMPTS
    /\ ~last.ok
    /\ store.lines = LinesOnEntry(last.pre.store)

\* C29: a call of log_to_csv that finds no log file creates it with the header
\* as its only line before it appends; if the file cannot be created the call
\* returns False, makes no attempt to append and leaves no file; and a file that
\* exists keeps every line it had, in place.
C29_EnsureInitialized ==
    last.op = "log_to_csv"
    => /\ (~last.pre.store.exists /\ last.create
            => /\ store.exists
               /\ Len(store.lines) >= 1
               /\ store.lines[1] = header
               /\ (~last.ok => store.lines = <<header>>))
       /\ (~last.pre.store.exists /\ ~last.create
            => /\ ~last.ok
               /\ last.log[1].attempts = 0
               /\ store = NoFile)
       /\ (last.pre.store.exists
            => /\ store.exists
               /\ Len(store.lines) >= Len(last.pre.store.lines)
               /\ SubSeq(store.lines, 1, Len(last.pre.store.lines))
                     = last.pre.store.lines)

\* C29 witness: log_to_csv was called with no log file present, and the file
\* now holds the header.
C29_Witness ==
    /\ last.op = "log_to_csv"
    /\ ~last.pre.store.exists
    /\ last.create
    /\ store.exists
    /\ store.lines[1] = header

\* C29, the other cases: the file could not be created; the file was there and
\* held a row.
C29_WitnessUnwritable ==
    last.op = "log_to_csv" /\ ~last.pre.store.exists /\ ~last.create /\ ~last.ok
C29_WitnessExisting ==
    last.op = "log_to_csv" /\ last.pre.store = File(<<header, old_row>>)

-----------------------------------------------------------------------------
(* Entries and exits: claims                                               *)

\* C4: in every state reached by entry attempts, exit evaluations, closes and
\* deposits in any order, no symbol has two open positions and the number of
\* open positions is at most MAX_POSITIONS.
C4_PositionLimits ==
    /\ \A i, j \in 1..Len(positions) :
         positions[i].symbol = positions[j].symbol => i = j
    /\ Len(positions) <= MAX_POSITIONS

\* C4 witness: with MAX_POSITIONS positions open, an entry for a further symbol
\* with a BUY or SELL signal has been attempted and turned down.
C4_Witness ==
    /\ last.op = "execute_trade"
    /\ last.sig \in {"BUY", "SELL"}
    /\ Len(last.pre.positions) = MAX_POSITIONS
    /\ ~HasPos(last.pre.positions, last.sym)
    /\ positions = last.pre.positions

\* The last operation was a call of execute_trade that opened a position.
EntryOpened ==
    /\ last.op = "execute_trade"
    /\ ~HasPos(last.pre.positions, last.sym)
    /\ HasPos(positions, last.sym)

\* C5: an entry that goes ahead, with notional = cash * RISK_PER_TRADE, takes the
\* full notional off cash and creates one position for the symbol with committed
\* value = notional less the entry fee (notional * (1 - FEE_PCT)), quantity =
\* committed value / price, peak_price = entry_price = price and side = the
\* signal; the other positions are as they were.
C5_EntryEffect ==
    EntryOpened =>
        LET notional == MulRate(last.pre.cash, env.RISK_PER_TRADE)
            pos == PosOf(positions, last.sym)
        IN /\ cash = last.pre.cash - notional
           /\ pos.trade_value = notional - MulRate(notional, env.FEE_PCT)
           /\ pos.quantity.n * last.price = pos.trade_value * pos.quantity.d
           /\ pos.peak_price = last.price
           /\ pos.entry_price = last.price
           /\ pos.side = last.sig
           /\ Len(positions) = Len(last.pre.positions) + 1
           /\ DictDel(positions, last.sym) = last.pre.positions

\* C5 witness: an entry has gone ahead beside another open position, and cash is
\* lower than before by more than the committed value (the fee is not zero).
C5_Witness ==
    /\ EntryOpened
    /\ Len(last.pre.positions) = 1
    /\ last.pre.cash - cash > PosOf(positions, last.sym).trade_value

\* C6: an entry attempt changes nothing (cash, open positions and the log file
\* are as before, and it returns False) when the signal is HOLD, or
\* MAX_POSITIONS positions are open, or the symbol has a position, or the trade
\* value is under the minimum trade size of 10.
C6_RejectedEntryNoChange ==
    (/\ last.op = "execute_trade"
     /\ \/ last.sig = "HOLD"
        \/ Len(last.pre.positions) >= MAX_POSITIONS
        \/ HasPos(last.pre.positions, last.sym)
        \/ MulRate(last.pre.cash, env.RISK_PER_TRADE) < 10 * MoneyScale)
    => (/\ ~last.ok
        /\ cash = last.pre.cash
        /\ positions = last.pre.positions
        /\ store = last.pre.store
        /\ portfolio_value = last.pre.pv
        /\ last.log = <<>>)

\* C6 witness: a BUY or SELL entry for a symbol without a position, with room
\* for one, has been turned down because 5% of cash is under the minimum size.
C6_Witness ==
    /\ last.op = "execute_trade"
    /\ last.sig \in {"BUY", "SELL"}
    /\ Len(last.pre.positions) < MAX_POSITIONS
    /\ ~HasPos(last.pre.positions, last.sym)
    /\ MulRate(last.pre.cash, env.RISK_PER_TRADE) < 10 * MoneyScale
    /\ positions = last.pre.positions
    /\ cash = last.pre.cash

\* The symbols manage_positions or close_position removed in the last operation.
ClosedSymbols ==
    {last.pre.positions[i].symbol : i \in 1..Len(last.pre.positions)}
    \ {positions[i].symbol : i \in 1..Len(positions)}

\* The position of the symbol as the exit conditions saw it in the last call of
\* manage_positions (its peak updated), and the price they saw.
SeenPrice(sym) ==
    PGet(last.pm, sym, PosOf(last.pre.positions, sym).entry_price)
SeenPos(sym) == UpdatePeak(PosOf(last.pre.positions, sym), SeenPrice(sym))

\* How many of the four exit conditions the position met.
RulesMet(sym) ==
    LET pos == SeenPos(sym)
        p == SeenPrice(sym)
        one(b) == IF b THEN 1 ELSE 0
    IN one(TrailingHit(pos, p)) + one(StopLossHit(pos, p))
       + one(TakeProfitHit(pos, p)) + one(TimedHit(pos, last.pre.now))

\* C8: when manage_positions closes a position that meets more than one exit
\* condition at the current price and time, the reason it returns is that of the
\* first condition met in the order TRAILING_STOP, STOP_LOSS, TAKE_PROFIT,
\* TIMED_EXIT.
C8_FirstRuleWins ==
    last.op = "manage_positions" =>
        \A sym \in ClosedSymbols :
            RulesMet(sym) >= 2 =>
                LET pos == SeenPos(sym)
                    p == SeenPrice(sym)
                IN last.res[3] =
                     (IF TrailingHit(pos, p) THEN "TRAILING_STOP"
                      ELSE IF StopLossHit(pos, p) THEN "STOP_LOSS"
                      ELSE IF TakeProfitHit(pos, p) THEN "TAKE_PROFIT"
                      ELSE "TIMED_EXIT")

\* C8 witness: manage_positions has closed a position that met the trailing stop
\* and the hard stop loss at once, and returned TRAILING_STOP.
C8_Witness ==
    /\ last.op = "manage_positions"
    /\ \E sym \in ClosedSymbols :
         /\ TrailingHit(SeenPos(sym), SeenPrice(sym))
         /\ StopLossHit(SeenPos(sym), SeenPrice(sym))
    /\ last.res[3] = "TRAILING_STOP"

\* The i-th position before the last call of manage_positions meets an exit
\* condition at the call's prices and time.
Qualifies(i) ==
    LET sym == last.pre.positions[i].symbol
    IN \/ TrailingHit(SeenPos(sym), SeenPrice(sym))
       \/ StopLossHit(SeenPos(sym), SeenPrice(sym))
       \/ TakeProfitHit(SeenPos(sym), SeenPrice(sym))
       \/ TimedHit(SeenPos(sym), last.pre.now)

\* C9: one call of manage_positions closes at most one position, even when
\* several meet an exit condition: the one closed is the first in insertion
\* order that meets any condition, and the positions after it are left as they
\* were (those before it have their peak updated).
C9_OneClosurePerCall ==
    last.op = "manage_positions" =>
        LET before == last.pre.positions
            hits == {i \in 1..Len(before) : Qualifies(i)}
        IN IF hits = {}
           THEN positions = [i \in 1..Len(before) |-> SeenPos(before[i].symbol)]
           ELSE LET k == CHOOSE i \in hits : \A j \in hits : i <= j
                IN positions =
                     [i \in 1..(k - 1) |-> SeenPos(before[i].symbol)]
                     \o SubSeq(before, k + 1, Len(before))

\* C9 witness: two positions met an exit condition in the same call; the first
\* was closed and the second is still open, untouched.
C9_Witness ==
    /\ last.op = "manage_positions"
    /\ Len(last.pre.positions) = 2
    /\ Qualifies(1) /\ Qualifies(2)
    /\ positions = <<last.pre.positions[2]>>
    /\ last.res[2] # "NONE"

-----------------------------------------------------------------------------
(* The cycle loop: run_simulation, bue_flashbot_virtual.py:519-574         *)

\* The feed quotes two coins.  What it returns in a cycle: nothing (a failed
\* request), or a price for each, in the order of the response.
FeedMaps == { <<>>,
              <<<<"BTC", 1200>>, <<"ETH", 1200>>>>,
              <<<<"BTC", 1000>>, <<"ETH", 1000>>>>,
              <<<<"ETH", 800>>, <<"BTC", 1050>>>> }

\* random.uniform(-0.008, 0.008), in parts per million
NoiseChoices == {0 - NOISE_MAX, 0 - 3000, 0, NOISE_MAX}

\* The histories of a quoted coin after nine cycles: nine quotes of 1000, or
\* five of 1000 and four of 800.
WarmHistories == { [i \in 1..9 |-> 1000],
                   [i \in 1..9 |-> IF i <= 5 THEN 1000 ELSE 800] }

\* One pass of the loop up to the for statement: the fetch, and for an empty
\* price map the sleep and "continue".
FetchEvaluatesExitsOnEmpty(pm) ==
    /\ pc = "fetch"
    /\ steps < MaxCycles
    /\ prices' = pm
    /\ closes' = 0
    /\ steps' = steps + 1
    /\ IF Len(pm) = 0
       THEN /\ pc' = "fetch"
            /\ todo' = <<>>
            /\ now' = now + SCAN_INTERVAL
            /\ \E r \in manage_positions(Engine, pm, now + TRADE_DURATION) : Commit(r.e)
       ELSE /\ pc' = "symbols"
            /\ todo' = pm
            /\ now' = now
            /\ UNCHANGED <<cash, portfolio_value, positions, state_saved, store, lock>>
    /\ last' = [Blank EXCEPT !.op = "fetch", !.pm = pm]
    /\ UNCHANGED <<price_history, fed, env>>
    /\ UNCHANGED <<proc, dash>>
Fetch(pm) ==
    /\ pc = "fetch"
    /\ steps < MaxCycles
    /\ prices' = pm
    /\ closes' = 0
    /\ steps' = steps + 1
    /\ IF Len(pm) = 0
       THEN /\ pc' = "fetch"
            /\ todo' = <<>>
            /\ now' = now + SCAN_INTERVAL
       ELSE /\ pc' = "symbols"
            /\ todo' = pm
            /\ now' = now
    /\ last' = [Blank EXCEPT !.op = "fetch", !.pm = pm]
    /\ UNCHANGED <<cash, portfolio_value, positions, state_saved, price_history,
                   fed, env, store, lock>>
    /\ UNCHANGED <<proc, dash>>

\* One pass of the for statement; after the last one, the sleep to the next cycle.
ProcessSymbol(random_component) ==
    /\ pc = "symbols"
    /\ Len(todo) > 0
    /\ LET symbol == Head(todo)[1]
           price == Head(todo)[2]
       IN IF price <= 0
          THEN /\ last' = [Blank EXCEPT !.op = "skip_symbol", !.sym = symbol]
               /\ UNCHANGED <<cash, portfolio_value, positions, state_saved,
                              price_history, fed, store, lock, closes>>
          ELSE LET b == calculate_bue_value(price_history[symbol], price,
                                            random_component)
               IN /\ price_history' = [price_history EXCEPT ![symbol] = b.history]
                  /\ fed' = [fed EXCEPT ![symbol] = Append(@, price)]
                  /\ \E r \in process_symbol(Engine, b, prices, symbol, price, now) :
                       /\ Commit(r.e)
                       /\ closes' = closes + r.closed
                       /\ last' = [Blank EXCEPT !.op = "process_symbol",
                                      !.sym = symbol, !.price = price,
                                      !.sig = r.sg.signal, !.delta = r.sg.delta,
                                      !.entered = r.entered, !.res = r.res,
                                      !.pm = prices, !.row = r.row, !.log = r.e.log]
    /\ todo' = Tail(todo)
    /\ pc' = IF Len(todo) = 1 THEN "fetch" ELSE "symbols"
    /\ now' = IF Len(todo) = 1 THEN now + SCAN_INTERVAL ELSE now
    /\ UNCHANGED <<prices, steps, env>>
    /\ UNCHANGED <<proc, dash>>

\* The engine after nine cycles that quoted BTC and ETH: with fewer than ten
\* samples no signal is strong enough to trade, so there is no position, cash is
\* PORTFOLIO_INITIAL, and the log file holds its header.
InitCycle ==
    /\ proc = ProcStart
    /\ InitEngine(1000 * MoneyScale, File(<<header>>))
    /\ \E hb \in WarmHistories, he \in WarmHistories :
         price_history = [s \in Symbols |-> IF s = "BTC" THEN hb
                                            ELSE IF s = "ETH" THEN he ELSE <<>>]
    /\ fed = price_history
    /\ env = DefaultEnv

NextCycle ==
    \/ \E pm \in FeedMaps : Fetch(pm)
    \/ \E random_component \in NoiseChoices : ProcessSymbol(random_component)

SpecCycle == InitCycle /\ [][NextCycle]_vars

\* The last operation was a pass of the for statement whose signal was BUY or
\* SELL with |delta| at most 1.5.
WeakSignalPass ==
    /\ last.op = "process_symbol"
    /\ last.sig \in {"BUY", "SELL"}
    /\ ~(last.delta.n * 10 > 15 * last.delta.d)
    /\ ~(last.delta.n * 10 < (0 - 15) * last.delta.d)

\* C7: no position is opened on a BUY or SELL signal whose |delta| is at most
\* the execution threshold 1.5 (1.2 < |delta| <= 1.5): the entry is not
\* attempted, no position appears and cash is not debited.
C7_NoEntryBelowExecutionThreshold ==
    WeakSignalPass =>
        /\ ~last.entered
        /\ ~(HasPos(positions, last.sym) /\ ~HasPos(last.pre.positions, last.sym))
        /\ Len(positions) <= Len(last.pre.positions)
        /\ cash >= last.pre.cash

\* C7 witness: a BUY signal with 1.2 < delta <= 1.5 for a symbol without a
\* position, while there was room and cash for one, and no position was opened.
C7_Witness ==
    /\ WeakSignalPass
    /\ last.sig = "BUY"
    /\ ~HasPos(last.pre.positions, last.sym)
    /\ Len(last.pre.positions) < MAX_POSITIONS
    /\ MulRate(last.pre.cash, env.RISK_PER_TRADE) >= 10 * MoneyScale
    /\ positions = last.pre.positions

-----------------------------------------------------------------------------
(* The ledger: claims                                                      *)

\* The last operation was a call of close_position for a symbol that had an
\* open LONG position.
ClosedLong ==
    /\ last.op = "close_position"
    /\ HasPos(last.pre.positions, last.sym)
    /\ PosOf(last.pre.positions, last.sym).side = "BUY"

\* The position is the one of the examples: quantity 1, bought at 100, with a
\* committed value of 100.
UnitLongAt100(pos) ==
    /\ pos.side = "BUY"
    /\ pos.entry_price = 100
    /\ pos.quantity.n = pos.quantity.d * MoneyScale
    /\ pos.trade_value = 100 * MoneyScale

\* C11: closing an open LONG position at price p removes it from the open
\* positions (the others stay), adds quantity * p less the exit fee (quantity *
\* p * FEE_PCT) to cash and returns the net P&L quantity * p - committed value -
\* exit fee; with entry 100, quantity 1, committed value 100, exit 110 and no
\* fee the P&L is 10.  Closing a symbol without a position changes nothing and
\* returns action NONE with P&L 0.
C11_CloseLong ==
    /\ ClosedLong =>
         LET pos == PosOf(last.pre.positions, last.sym)
             gross == (pos.quantity.n * last.price) \div pos.quantity.d
             exit_fee == MulRate(gross, env.FEE_PCT)
         IN /\ positions = SelectSeq(last.pre.positions,
                                     LAMBDA q : q.symbol # last.sym)
            /\ Len(positions) = Len(last.pre.positions) - 1
            /\ cash = last.pre.cash + gross - exit_fee
            /\ last.res = <<gross - pos.trade_value - exit_fee, "CLOSE_BUY",
                            last.reason>>
            /\ (UnitLongAt100(pos) /\ last.price = 110 /\ env.FEE_PCT = 0)
                 => last.res[1] = 10 * MoneyScale
    /\ (last.op = "close_position" /\ ~HasPos(last.pre.positions, last.sym)) =>
         /\ cash = last.pre.cash
         /\ positions = last.pre.positions
         /\ portfolio_value = last.pre.pv
         /\ store = last.pre.store
         /\ last.res[1] = 0
         /\ last.res[2] = "NONE"

\* C11 witness: the LONG of the example (quantity 1 bought at 100, no fee) has
\* been closed at 110 with a P&L of 10.
C11_Witness ==
    /\ ClosedLong
    /\ UnitLongAt100(PosOf(last.pre.positions, last.sym))
    /\ env.FEE_PCT = 0
    /\ last.price = 110
    /\ last.res[1] = 10 * MoneyScale
    /\ cash = last.pre.cash + 110 * MoneyScale

\* C12: for every closure, LONG or SHORT, the cash credited at the close less
\* the position's committed value equals the net P&L the close returns.
C12_CashMatchesRealized ==
    (last.op \in {"close_position", "manage_positions"} /\ last.res[2] # "NONE") =>
        \A sym \in ClosedSymbols :
            (cash - last.pre.cash) - PosOf(last.pre.positions, sym).trade_value
              = last.res[1]

\* Unrealized P&L of the i-th open position at the prices of the last call of
\* calculate_equity, and the sum from the i-th position on.
UnrealizedAt(i) ==
    LET pos == positions[i]
        quoted == {k \in 1..Len(last.pm) : last.pm[k][1] = pos.symbol}
        p == IF quoted = {} THEN pos.entry_price
             ELSE last.pm[CHOOSE k \in quoted : TRUE][2]
        value == (pos.quantity.n * p) \div pos.quantity.d
    IN IF pos.side = "BUY" THEN value - pos.trade_value ELSE pos.trade_value - value
RECURSIVE UnrealizedFrom(_)
UnrealizedFrom(i) ==
    IF i > Len(positions) THEN 0 ELSE UnrealizedAt(i) + UnrealizedFrom(i + 1)

\* C13: calculate_equity(prices) returns cash plus the sum over the open
\* positions of the unrealized P&L (LONG: quantity * price - committed value,
\* SHORT: committed value - quantity * price) at the price of the map, or at the
\* entry price when the map does not quote the symbol; with cash 900 and one
\* LONG of quantity 1 bought at 100 it is 905 at 105 and 900 when the symbol is
\* missing.  The call changes neither cash nor the open positions.
C13_EquityFormula ==
    last.op = "calculate_equity" =>
        /\ last.ret = cash + UnrealizedFrom(1)
        /\ cash = last.pre.cash
        /\ positions = last.pre.positions
        /\ (/\ cash = 900 * MoneyScale
            /\ Len(positions) = 1
            /\ UnitLongAt100(positions[1]))
           => last.ret = (IF HasKey(last.pm, positions[1].symbol)
                          THEN 905 * MoneyScale ELSE 900 * MoneyScale)

\* C13 witness: equity has been computed with cash 900 and the one LONG of the
\* example, on a price map that does not quote its symbol, and is 900.
C13_Witness ==
    /\ last.op = "calculate_equity"
    /\ cash = 900 * MoneyScale
    /\ Len(positions) = 1
    /\ UnitLongAt100(positions[1])
    /\ ~HasKey(last.pm, positions[1].symbol)
    /\ Len(last.pm) > 0
    /\ last.ret = 900 * MoneyScale

\* C14: a deposit of an amount <= 0, by the engine (deposit_funds) or by the
\* dashboard (make_deposit_transaction), is turned down: cash, equity, the open
\* positions and the log file are as before, no record is written, and the
\* call returns False.
C14_NonPositiveDepositRejected ==
    (last.op \in {"deposit_funds", "make_deposit_transaction"} /\ last.amount <= 0)
    => (/\ ~last.ok
        /\ cash = last.pre.cash
        /\ portfolio_value = last.pre.pv
        /\ positions = last.pre.positions
        /\ store = last.pre.store
        /\ last.log = <<>>
        /\ last.row = <<>>)

\* C14 witness: deposit_funds has been called with 0 while a position was open,
\* and returned False.
C14_Witness ==
    /\ last.op = "deposit_funds"
    /\ last.amount = 0
    /\ Len(last.pre.positions) > 0
    /\ ~last.ok
    /\ cash = last.pre.cash

\* C15: deposit_funds with an amount > 0 adds the amount to cash and to the
\* stored equity, leaves the open positions as they were and, before it
\* returns, appends one DEPOSIT record whose value is the amount and whose
\* equity is the new equity.
C15_DepositRecorded ==
    (last.op = "deposit_funds" /\ last.amount > 0 /\ last.pre.store.exists)
    => (/\ cash = last.pre.cash + last.amount
        /\ portfolio_value = last.pre.pv + last.amount
        /\ positions = last.pre.positions
        /\ Len(store.lines) = Len(last.pre.store.lines) + 1
        /\ SubSeq(store.lines, 1, Len(last.pre.store.lines)) = last.pre.store.lines
        /\ LET rec == store.lines[Len(store.lines)]
           IN /\ rec[7] = "DEPOSIT"
              /\ rec[8] = last.amount
              /\ rec[12] = portfolio_value)

\* The last operation was a call of manage_positions, under the default
\* settings, on a single LONG opened at 100 whose price map quotes it at p.
LongAt100Evaluated(p) ==
    /\ last.op = "manage_positions"
    /\ env = DefaultEnv
    /\ Len(last.pre.positions) = 1
    /\ last.pre.positions[1].side = "BUY"
    /\ last.pre.positions[1].entry_price = 100
    /\ last.pre.positions[1].peak_price = 100
    /\ HasKey(last.pm, last.pre.positions[1].symbol)
    /\ SeenPrice(last.pre.positions[1].symbol) = p

\* C16: with STOP_LOSS_PCT 0.03 and TRAILING_STOP_PCT 0.02, a LONG opened at
\* 100 is still open after the evaluation at 98, and the evaluation at 90
\* closes it with reason STOP_LOSS and a negative P&L.
C16_StopLossScenario ==
    /\ LongAt100Evaluated(98) => positions = last.pre.positions
    /\ LongAt100Evaluated(90) =>
         /\ positions = <<>>
         /\ last.res[3] = "STOP_LOSS"
         /\ last.res[1] < 0

-----------------------------------------------------------------------------
(* The signal functions on their own: calculate_bue_value and               *)
(* generate_signal called with any symbol, price and noise, on histories    *)
(* that are empty or hold the nineteen prices of nineteen earlier calls.    *)

\* Bound of the model: calls per run
MaxCalls == 4

ScoreSymbols == {"BTC", "ETH"}
ScorePrices == {1000, 1010}
ScoreNoise == {0 - NOISE_MAX, 0, NOISE_MAX}
ScoreHistories == { <<>>, [i \in 1..19 |-> 1000 + i] }
SignalPrices == {0 - 5, 0, 1000}
SignalValues == {987, 988, 989, 1000, 1011, 1012, 1013}

\* self.calculate_bue_value(symbol, current_price)
CalculateBueValue(symbol, current_price, random_component) ==
    /\ steps < MaxCalls
    /\ LET b == calculate_bue_value(price_history[symbol], current_price,
                                    random_component)
       IN /\ price_history' = [price_history EXCEPT ![symbol] = b.history]
          /\ fed' = [fed EXCEPT ![symbol] = Append(@, current_price)]
          /\ last' = [Blank EXCEPT !.op = "calculate_bue_value", !.sym = symbol,
                                   !.price = current_price, !.ret = b.bue,
                                   !.random_component = random_component]
    /\ steps' = steps + 1
    /\ UNCHANGED <<cash, portfolio_value, positions, state_saved, env, prices,
                   store, lock, now, pc, todo, closes>>
    /\ UNCHANGED <<proc, dash>>

\* self.generate_signal(current_price, bue_value)
GenerateSignal(current_price, bue_value) ==
    /\ steps < MaxCalls
    /\ LET sg == generate_signal(current_price, bue_value)
       IN last' = [Blank EXCEPT !.op = "generate_signal", !.price = current_price,
                                !.ret = bue_value, !.sig = sg.signal,
                                !.delta = sg.delta]
    /\ steps' = steps + 1
    /\ UNCHANGED <<cash, portfolio_value, positions, state_saved, price_history,
                   fed, env, prices, store, lock, now, pc, todo, closes>>
    /\ UNCHANGED <<proc, dash>>

InitScore ==
    /\ proc = ProcStart
    /\ InitEngine(1000 * MoneyScale, File(<<header>>))
    /\ \E hb \in ScoreHistories, he \in ScoreHistories :
         price_history = [s \in Symbols |-> IF s = "BTC" THEN hb
                                            ELSE IF s = "ETH" THEN he ELSE <<>>]
    /\ fed = price_history
    /\ env = DefaultEnv

NextScore ==
    \/ \E symbol \in ScoreSymbols, current_price \in ScorePrices,
          random_component \in ScoreNoise :
         CalculateBueValue(symbol, current_price, random_component)
    \/ \E current_price \in SignalPrices, bue_value \in SignalValues :
         GenerateSignal(current_price, bue_value)

SpecScore == InitScore /\ [][NextScore]_vars

-----------------------------------------------------------------------------
(* The signal functions: claims                                            *)

\* The last min(n, 20) of the n prices passed for the symbol, in order.
RecentPrices(sym) ==
    LET n == Len(fed[sym])
        k == IF n < 20 THEN n ELSE 20
    IN [i \in 1..k |-> fed[sym][n - k + i]]

\* C17: after any sequence of calls of calculate_bue_value, the history of
\* every symbol has at most 20 prices and is, in order, the last min(n, 20) of
\* the n prices passed for that symbol (the oldest leave first); a call for one
\* symbol does not touch the history of another.
C17_HistoryWindow ==
    \A sym \in Symbols :
        /\ Len(price_history[sym]) <= 20
        /\ price_history[sym] = RecentPrices(sym)

\* C17 witness: more than 20 prices have been passed for a symbol, its history
\* holds 20 and starts at the third price passed.
C17_Witness ==
    /\ last.op = "calculate_bue_value"
    /\ Len(fed[last.sym]) = 22
    /\ Len(price_history[last.sym]) = 20
    /\ price_history[last.sym][1] = fed[last.sym][3]
    /\ price_history[last.sym][20] = last.price

\* C18: when the history, the price just appended included, holds fewer than 5
\* prices, calculate_bue_value returns the current price itself, whatever the
\* random component.
C18_FewSamplesReturnsPrice ==
    (last.op = "calculate_bue_value" /\ Len(fed[last.sym]) < 5)
    => last.ret = last.price

\* C18 witness: a call with a history of 4 prices and a random component of
\* 0.8% has returned the current price.
C18_Witness ==
    /\ last.op = "calculate_bue_value"
    /\ Len(fed[last.sym]) = 4
    /\ last.random_component = NOISE_MAX
    /\ last.ret = last.price

\* C19: for a price > 0, generate_signal(price, bue) is BUY exactly when
\* delta = (bue - price) / price * 100 is above 1.2, SELL exactly when it is
\* below -1.2 and HOLD otherwise, so a delta of exactly 1.2 or -1.2 is HOLD, and
\* the delta it returns is that number; for a price <= 0 it is HOLD with delta 0.
C19_SignalClassification ==
    last.op = "generate_signal" =>
        IF last.price <= 0
        THEN last.sig = "HOLD" /\ last.delta.n = 0
        ELSE LET diff == last.ret - last.price
             IN /\ last.delta.n * last.price = diff * 100 * last.delta.d
                /\ last.sig = "BUY" <=> diff * 1000 > 12 * last.price
                /\ last.sig = "SELL" <=> diff * 1000 < (0 - 12) * last.price
                /\ last.sig \in {"BUY", "SELL", "HOLD"}

\* C19 witness: a delta of exactly 1.2 (price 1000, value 1012) has given HOLD.
C19_Witness ==
    /\ last.op = "generate_signal"
    /\ last.price = 1000
    /\ last.ret = 1012
    /\ last.sig = "HOLD"

-----------------------------------------------------------------------------
(* The cycle loop: the empty feed                                          *)

\* C20: a cycle whose fetch returns an empty price map is skipped: the open
\* positions with their peak prices, cash, every price history and the log
\* file are the same after the cycle as before it, and the loop is back at its
\* fetch.
C20_EmptyFeedSkipsCycle ==
    [][(pc = "fetch" /\ prices' = <<>> /\ last'.op = "fetch")
       => (/\ positions' = positions
           /\ cash' = cash
           /\ price_history' = price_history
           /\ store' = store
           /\ pc' = "fetch")]_vars

\* C20 witness: the feed has returned nothing in a cycle that began with two
\* positions open.
C20_Witness ==
    /\ last.op = "fetch"
    /\ last.pm = <<>>
    /\ Len(last.pre.positions) = 2
    /\ positions = last.pre.positions
    /\ pc = "fetch"

-----------------------------------------------------------------------------
(* The ledger and the failing append                                       *)

\* The engine state the last operation started from.
PreEngine == [cash |-> last.pre.cash, pv |-> last.pre.pv,
              positions |-> last.pre.positions, saved |-> last.pre.saved,
              store |-> last.pre.store, lock |-> last.pre.lock, log |-> <<>>]

\* Every way the last operation could have gone from the state it started in,
\* over what its appends met (no log file and no way to create one, open, flock
\* or the read failing on any number of attempts).
OutcomesOfLast ==
    CASE last.op = "execute_trade" ->
           { r.e : r \in execute_trade(PreEngine, last.sym, last.sig, last.price,
                                       last.delta, last.pre.now) }
      [] last.op = "close_position" ->
           { r.e : r \in close_position(PreEngine, last.sym, last.price, last.reason,
                                        last.pre.now) }
      [] last.op = "deposit_funds" ->
           { r.e : r \in deposit_funds(PreEngine, last.amount, last.pre.now) }
      [] OTHER -> {}

\* An append of the last operation returned False.
AppendFailed == \E i \in 1..Len(last.log) : ~last.log[i].ok

\* C24: after an entry, a close or a deposit, cash and the open positions are what
\* every outcome of the operation's append leaves (they do not depend on how the
\* append ended), and the two halves of the operation are applied together: an
\* entry that goes ahead has its position open and cash lower, a close of an open
\* position has the position gone and cash higher, a deposit of a positive amount
\* has cash higher by the amount and the positions as they were, and an operation
\* that is refused changes neither.
C24_LedgerUnaffectedByAppend ==
    /\ \A e \in OutcomesOfLast : e.cash = cash /\ e.positions = positions
    /\ (last.op = "execute_trade"
        => IF Len(last.log) > 0
           THEN /\ HasPos(positions, last.sym)
                /\ ~HasPos(last.pre.positions, last.sym)
                /\ cash = last.pre.cash - MulRate(last.pre.cash, env.RISK_PER_TRADE)
           ELSE cash = last.pre.cash /\ positions = last.pre.positions)
    /\ (last.op = "close_position"
        => IF HasPos(last.pre.positions, last.sym)
           THEN /\ ~HasPos(positions, last.sym)
                /\ Len(positions) = Len(last.pre.positions) - 1
                /\ cash > last.pre.cash
           ELSE cash = last.pre.cash /\ positions = last.pre.positions)
    /\ (last.op = "deposit_funds"
        => /\ positions = last.pre.positions
           /\ cash = last.pre.cash + (IF last.amount > 0 THEN last.amount ELSE 0))

\* C24 witness: a close whose append failed has removed the position and
\* credited cash.
C24_Witness ==
    /\ last.op = "close_position"
    /\ HasPos(last.pre.positions, last.sym)
    /\ AppendFailed
    /\ ~HasPos(positions, last.sym)
    /\ cash > last.pre.cash

\* C24, the other operations: an entry and a deposit whose append failed.
C24_WitnessEntry ==
    last.op = "execute_trade" /\ AppendFailed /\ HasPos(positions, last.sym)
C24_WitnessDeposit ==
    last.op = "deposit_funds" /\ AppendFailed /\ cash > last.pre.cash

-----------------------------------------------------------------------------
(* The records of a closure                                                *)

\* Column 9 of a record is its action, column 10 its pnl.
IsCloseRecord(row) == row[9] \in {"CLOSE_BUY", "CLOSE_SELL"}

\* The records the last operation handed to log_to_csv that carry CLOSE_<SIDE>.
CloseRecordsOfLast == { i \in 1..Len(last.log) : IsCloseRecord(last.log[i].row) }

\* C30: a pass of the for statement that closes a position hands log_to_csv
\* exactly one record with action CLOSE_<SIDE>, carrying the closure's net P&L,
\* so that the pnl column summed over the records of the pass is that P&L.
C30_OneCloseRecordPerClosure ==
    (last.op = "process_symbol" /\ last.res[2] # "NONE")
    => /\ Cardinality(CloseRecordsOfLast) = 1
       /\ \A i \in CloseRecordsOfLast : last.log[i].row[10] = last.res[1]

-----------------------------------------------------------------------------
(* The engine process statement by statement: the loop of run_simulation    *)
(* (519-574) with execute_trade, manage_positions, close_position and       *)
(* log_to_csv taken apart at the statements between which the signal        *)
(* handler, or another process, can come in; and graceful_shutdown          *)
(* (492-511), which Python runs in the main thread, on top of the frame it  *)
(* interrupts.                                                              *)

\* self.log_to_csv(row_data) called from a frame that goes on at "ret"
CallLog(f, row_data, ret) ==
    [f EXCEPT !.at = "exists", !.ret = ret, !.attempt = 1, !.ok = FALSE,
              !.row = NormaliseRow(row_data)]

\* The frame is inside log_to_csv.
InLog(f) == f.at \in {"exists", "create", "open", "flock", "read", "backoff"}

\* fcntl.flock(file.fileno(), fcntl.LOCK_EX) (266) has no LOCK_NB: the call
\* returns only once no other open file holds a lock on LOG_FILE.
Blocked(f, lk) == f.at = "flock" /\ lk # "free"

\* One statement of log_to_csv, by the frame f whose file object is "holder":
\*   exists   "if not LOG_FILE.exists()"                                  (251)
\*   create   open(LOG_FILE, 'w') and the header                      (253-255)
\*   open     open(LOG_FILE, 'a'), which creates a file that is absent    (263)
\*   flock    the exclusive lock                                          (266)
\*   read     the rest of the with statement: the header check, the write,
\*            the unlock, and the close that ends the statement       (269-287)
\*   backoff  "except Exception": sleep(0.2), the next attempt or False (289-294)
LogStep(f, st, lk, holder) ==
    CASE f.at = "exists" ->
           [f |-> [f EXCEPT !.at = IF st.exists THEN "open" ELSE "create"],
            store |-> st, lock |-> lk, saved |-> FALSE]
      [] f.at = "create" ->
           [f |-> [f EXCEPT !.at = "open"],
            store |-> File(<<header>>), lock |-> lk, saved |-> FALSE]
      [] f.at = "open" ->
           [f |-> [f EXCEPT !.at = "flock"],
            store |-> IF st.exists THEN st ELSE File(<<>>), lock |-> lk,
            saved |-> FALSE]
      [] f.at = "flock" ->
           [f |-> [f EXCEPT !.at = "read"], store |-> st, lock |-> holder,
            saved |-> FALSE]
      [] f.at = "read" ->
           LET a == FileAttempt(st, lk, f.row, "none")
           IN [f |-> IF a.kind = "error" THEN [f EXCEPT !.at = "backoff"]
                     ELSE [f EXCEPT !.at = f.ret, !.ok = (a.kind = "ok")],
               store |-> a.store,
               lock |-> IF lk = holder THEN "free" ELSE lk,
               saved |-> a.kind = "ok"]
      [] f.at = "backoff" ->
           [f |-> IF f.attempt < MAX_ATTEMPTS
                  THEN [f EXCEPT !.at = "open", !.attempt = @ + 1]
                  ELSE [f EXCEPT !.at = f.ret, !.ok = FALSE],
            store |-> st, lock |-> lk, saved |-> FALSE]

\* What the statements of the main frame read and write.
Snap == [cash |-> cash, pv |-> portfolio_value, positions |-> positions,
         saved |-> state_saved, store |-> store, lock |-> lock, now |-> now,
         prices |-> prices, todo |-> todo, price_history |-> price_history,
         fed |-> fed, steps |-> steps, main |-> proc.main, job |-> proc.job,
         debited |-> proc.debited, credited |-> proc.credited]

\* The open positions while close_position is between "self.cash += ..." and
\* "del self.positions[symbol]": every peak that manage_positions updated, and
\* the position being closed still there.
BeforeDel(ps, after, closing, current_prices) ==
    [i \in 1..Len(ps) |->
        IF ps[i].symbol = closing
        THEN UpdatePeak(ps[i], PGet(current_prices, closing, ps[i].entry_price))
        ELSE PosOf(after, ps[i].symbol)]

\* One statement of the main frame (pm: what the feed returns to a fetch;
\* random_component: the draw of calculate_bue_value):
\*   fetch       self.prices = self.fetch_coingecko_data(), the empty map (526-531)
\*   evaluate    the head of a pass: fair value, signal, value_estimate, and
\*               the checks of execute_trade                     (534-546, 324-344)
\*   entry_pos   self.positions[symbol] = {...}                        (347-354)
\*   entry_cash  self.cash -= trade_value, the equity, the trade row   (357-368)
\*   manage      manage_positions up to the close: the peaks, the exit rule,
\*               self.cash += proceeds - exit_fee, the close row (433-478, 372-410)
\*   close_del   del self.positions[symbol]                            (413-414)
\*   equity      the equity and the scan row                           (552-562)
\*   pause       sleep(0.05); after the last symbol the sleep to the next
\*               cycle                                                 (565-574)
MainNext(pm, random_component) ==
    LET S == Snap
        f == proc.main
        j == proc.job
    IN CASE f.at = "fetch" ->
              IF Len(pm) = 0
              THEN [S EXCEPT !.prices = pm, !.steps = @ + 1,
                             !.now = @ + SCAN_INTERVAL]
              ELSE [S EXCEPT !.prices = pm, !.steps = @ + 1, !.todo = pm,
                             !.main.at = "evaluate"]
         [] f.at = "evaluate" ->
              LET symbol == Head(todo)[1]
                  price == Head(todo)[2]
                  b == calculate_bue_value(price_history[symbol], price,
                                           random_component)
                  sg == generate_signal(price, b.bue)
                  entered == StrongSignal(sg)
                  goes == entered /\ Rejection(Engine, symbol, sg.signal) = ""
                  r == CHOOSE r \in execute_trade(Engine, symbol, sg.signal, price,
                                                  sg.delta, now) : TRUE
              IN IF price <= 0
                 THEN [S EXCEPT !.main.at = "pause"]
                 ELSE [S EXCEPT
                         !.price_history = [@ EXCEPT ![symbol] = b.history],
                         !.fed = [@ EXCEPT ![symbol] = Append(@, price)],
                         !.job = [NoJob EXCEPT
                                    !.sym = symbol, !.price = price, !.bue = b.bue,
                                    !.sig = sg.signal, !.delta = sg.delta,
                                    !.value_estimate =
                                        ValueEstimate(cash, Len(prices), sg.delta),
                                    !.entered = entered,
                                    !.plan = IF goes
                                             THEN [cash |-> r.e.cash, pv |-> r.e.pv,
                                                   positions |-> r.e.positions,
                                                   row |-> r.e.log[1].row]
                                             ELSE NoJob.plan],
                         !.main.at = IF goes THEN "entry_pos" ELSE "manage"]
         [] f.at = "entry_pos" ->
              [S EXCEPT !.positions = j.plan.positions, !.main.at = "entry_cash"]
         [] f.at = "entry_cash" ->
              [S EXCEPT !.cash = j.plan.cash, !.pv = j.plan.pv,
                        !.debited = @ \cup {j.sym},
                        !.main = CallLog(f, j.plan.row, "manage")]
         [] f.at = "manage" ->
              LET m == CHOOSE m \in manage_positions(Engine, prices, now) : TRUE
                  closing == CHOOSE s \in {positions[i].symbol : i \in 1..Len(positions)} :
                                ~HasPos(m.e.positions, s)
              IN IF m.ret[2] = "NONE"
                 THEN [S EXCEPT !.positions = m.e.positions, !.job.res = m.ret,
                                !.main.at = "equity"]
                 ELSE [S EXCEPT !.positions = BeforeDel(positions, m.e.positions,
                                                        closing, prices),
                                !.cash = m.e.cash, !.pv = m.e.pv,
                                !.credited = @ \cup {closing},
                                !.job.res = m.ret, !.job.closing = closing,
                                !.main = CallLog(f, m.e.log[1].row, "close_del")]
         [] f.at = "close_del" ->
              [S EXCEPT !.positions = DictDel(@, j.closing),
                        !.debited = @ \ {j.closing},
                        !.credited = @ \ {j.closing},
                        !.main.at = "equity"]
         [] f.at = "equity" ->
              LET x == CHOOSE x \in ScanStep([e |-> Engine, ret |-> j.res, closed |-> 0],
                                             prices, j.sym, j.price, j.bue,
                                             [signal |-> j.sig, delta |-> j.delta],
                                             j.value_estimate, j.entered, now) : TRUE
              IN [S EXCEPT !.pv = calculate_equity(Engine, prices).pv,
                           !.main = CallLog(f, x.row, "pause")]
         [] f.at = "pause" ->
              IF Len(todo) > 1
              THEN [S EXCEPT !.todo = Tail(@), !.main.at = "evaluate"]
              ELSE [S EXCEPT !.todo = <<>>, !.now = @ + SCAN_INTERVAL,
                             !.main.at = "fetch"]
         [] InLog(f) ->
              LET r == LogStep(f, store, lock, "engine")
              IN [S EXCEPT !.main = r.f, !.store = r.store, !.lock = r.lock,
                           !.saved = @ \/ r.saved]

\* The feed of a run that quotes one coin; its history after nine cycles.
ShutdownFeeds == {<<<<"BTC", 1200>>>>, <<<<"BTC", 1000>>>>}
ShutdownNoise == {0, NOISE_MAX}

\* The main thread runs its next statement: not while the handler is on top of
\* it, not after the exit, and not while it waits for the lock ("idle": the
\* caller of log_to_csv is outside the loop).
EngineStep ==
    /\ proc.main.at # "idle"
    /\ proc.handler.at = "none"
    /\ ~proc.stopped
    /\ ~Blocked(proc.main, lock)
    /\ proc.main.at = "fetch" => steps < MaxCycles
    /\ \E pm \in (IF proc.main.at = "fetch" THEN ShutdownFeeds ELSE {<<>>}),
          random_component \in (IF proc.main.at = "evaluate" THEN ShutdownNoise
                                ELSE {0}) :
         \E N \in {MainNext(pm, random_component)} :
            /\ cash' = N.cash
            /\ portfolio_value' = N.pv
            /\ positions' = N.positions
            /\ state_saved' = N.saved
            /\ store' = N.store
            /\ lock' = N.lock
            /\ now' = N.now
            /\ prices' = N.prices
            /\ todo' = N.todo
            /\ price_history' = N.price_history
            /\ fed' = N.fed
            /\ steps' = N.steps
            /\ proc' = [proc EXCEPT !.main = N.main, !.job = N.job,
                                    !.debited = N.debited, !.credited = N.credited]
    /\ UNCHANGED <<env, pc, closes, last, dash>>

\* SIGINT or SIGTERM is delivered (signal.signal, 514-515): graceful_shutdown
\* starts on top of whatever statement the main thread was at.
Signal ==
    /\ ~proc.signalled
    /\ ~proc.stopped
    /\ proc' = [proc EXCEPT !.signalled = TRUE, !.handler.at = "check",
                            !.saved_at_signal = state_saved]
    /\ UNCHANGED <<cash, portfolio_value, positions, state_saved, price_history,
                   fed, env, prices, store, lock, now, pc, todo, closes, steps,
                   last, dash>>

\* "if not self.state_saved:"
ShutdownRowNeeded(saved) == ~saved

\* One statement of graceful_shutdown:
\*   check  "if not self.state_saved": the SHUTDOWN row and its append (500-505)
\*   exit   sys.exit(0): SystemExit is no Exception, so it passes the except
\*          clause of log_to_csv and those of main(); the with statement of an
\*          interrupted append closes its file on the way out          (511)
HandlerStep ==
    /\ proc.handler.at \notin {"none", "done"}
    /\ ~Blocked(proc.handler, lock)
    /\ LET h == proc.handler
           shutdown_row == <<session_id, now, "SYSTEM", 0, 0, 0, "SHUTDOWN", 0,
                             "SHUTDOWN", 0, "GRACEFUL", portfolio_value>>
       IN CASE h.at = "check" ->
                 /\ proc' = IF ShutdownRowNeeded(state_saved)
                            THEN [proc EXCEPT !.handler = CallLog(h, shutdown_row, "exit"),
                                              !.shutdown_rows = @ + 1]
                            ELSE [proc EXCEPT !.handler.at = "exit"]
                 /\ UNCHANGED <<store, lock, state_saved>>
            [] InLog(h) ->
                 LET r == LogStep(h, store, lock, "handler")
                 IN /\ proc' = [proc EXCEPT !.handler = r.f]
                    /\ store' = r.store
                    /\ lock' = r.lock
                    /\ state_saved' = (state_saved \/ r.saved)
            [] h.at = "exit" ->
                 /\ proc' = [proc EXCEPT !.handler.at = "done", !.stopped = TRUE]
                 /\ lock' = CloseFile(lock)
                 /\ UNCHANGED <<store, state_saved>>
    /\ UNCHANGED <<cash, portfolio_value, positions, price_history, fed, env,
                   prices, now, pc, todo, closes, steps, last, dash>>

\* The engine started on a log file that is absent or holds its header, after
\* nine cycles that quoted BTC at 1000.
InitShutdown ==
    /\ proc = ProcStart
    /\ \E st \in {NoFile, File(<<header>>)} : InitEngine(1000 * MoneyScale, st)
    /\ price_history = [s \in Symbols |-> IF s = "BTC" THEN [i \in 1..9 |-> 1000]
                                          ELSE <<>>]
    /\ fed = price_history
    /\ env = DefaultEnv

NextShutdown ==
    \/ EngineStep
    \/ Signal
    \/ HandlerStep

SpecShutdown == InitShutdown /\ [][NextShutdown]_vars

-----------------------------------------------------------------------------
(* The termination signal: claims                                          *)

\* graceful_shutdown has decided whether to append the SHUTDOWN row.
HandlerDecided == proc.handler.at \notin {"none", "check"}

\* C21: once graceful_shutdown has passed its test, it has started the append of
\* one SHUTDOWN row exactly if state_saved was False when the signal came (no
\* append had succeeded in the run), never more than one; and from there on the
\* handler is not held up before sys.exit: it is never waiting for a lock that
\* is not released.
C21_ShutdownRecordThenStop ==
    /\ proc.shutdown_rows <= 1
    /\ (HandlerDecided => (proc.shutdown_rows = 1 <=> ~proc.saved_at_signal))
    /\ (HandlerDecided /\ ~proc.stopped => ~Blocked(proc.handler, lock))

\* C22: from the delivery of the signal until the process has exited, the
\* handler can always run its next statement, whatever statement of the loop
\* the signal interrupted (so that it reaches sys.exit after the finite number
\* of statements it has).
C22_HandlerAlwaysProceeds ==
    (proc.signalled /\ ~proc.stopped) => ENABLED HandlerStep

\* C23: when the process has exited, every open position has had its notional
\* taken off cash, and no open position has had its close proceeds added to
\* cash.
C23_NoHalfAppliedTrade ==
    proc.stopped
    => \A i \in 1..Len(positions) :
          /\ positions[i].symbol \in proc.debited
          /\ positions[i].symbol \notin proc.credited

-----------------------------------------------------------------------------
(* The engine and the dashboard on one log file.  The dashboard is another  *)
(* process: load_trading_data (sb_dashboard.py:94-125) and                  *)
(* make_deposit_transaction (226-271), statement by statement through       *)
(* safe_file_operation (68-92), while the engine is inside log_to_csv.      *)

\* safe_file_operation(file_path, mode, timeout=3) and its time.sleep(0.1), in
\* tenths of a second
DASH_TIMEOUT == 30
DASH_BACKOFF == 1

\* "while time.time() - start_time < timeout" has run out
TimedOutNever(waited) == FALSE
TimedOut(waited) == waited >= DASH_TIMEOUT

\* open(file_path, mode): 'w' creates or truncates the file, 'a' creates it when
\* it is absent, 'r' changes nothing (and raises when the file is absent).
OpenFile(st, mode) ==
    IF mode = "w" THEN File(<<>>)
    ELSE IF mode = "a" /\ ~st.exists THEN File(<<>>)
    ELSE st

\* The dashboard after safe_file_operation yielded None ("if f is None" /
\* "if f is not None"), for the reason why.
DashNone(d, why) ==
    CASE d.op = "read" ->
           [DashIdle EXCEPT !.result = "empty", !.none = why, !.waited = d.waited]
      [] d.phase = "create" ->
           [d EXCEPT !.phase = "load", !.mode = "r", !.at = "enter", !.waited = 0]
      [] d.phase = "load" ->
           [d EXCEPT !.phase = "append", !.mode = "a", !.at = "enter", !.waited = 0,
                     !.equity = DASHBOARD_EQUITY_DEFAULT * MoneyScale]
      [] d.phase = "append" ->
           [DashIdle EXCEPT !.result = "False", !.none = why, !.waited = d.waited]

\* The body of "with safe_file_operation(...) as f" once the file is open and
\* locked: [dash, store]
DashBody(d, st, t) ==
    CASE d.op = "read" ->
           [dash |-> [DashIdle EXCEPT !.result = IF Len(DataRows(st)) > 0 THEN "data"
                                                ELSE "empty",
                                      !.waited = d.waited],
            store |-> st]
      [] d.phase = "create" ->
           [dash |-> [d EXCEPT !.phase = "load", !.mode = "r", !.at = "enter",
                               !.waited = 0],
            store |-> File(<<header>>)]
      [] d.phase = "load" ->
           [dash |-> [d EXCEPT !.phase = "append", !.mode = "a", !.at = "enter",
                               !.waited = 0,
                               !.equity = IF Len(DataRows(st)) > 0
                                          THEN LatestRow(DataRows(st))[12]
                                          ELSE DASHBOARD_EQUITY_DEFAULT * MoneyScale],
            store |-> st]
      [] d.phase = "append" ->
           [dash |-> [DashIdle EXCEPT !.result = "True", !.waited = d.waited],
            store |-> File(Append(st.lines,
                           <<dashboard_session, t, "SYSTEM", 0, 0, 0, "DEPOSIT",
                             d.amount, "DEPOSIT", 0, "N/A", d.equity + d.amount>>))]

\* One statement of the dashboard: [dash, store, lock]
\*   check   "if amount <= 0"                                        (228-230)
\*   exists  "if not LOG_FILE.exists()"                                  (238)
\*   enter   the head of safe_file_operation: an absent file read      (71-76)
\*   try     one pass of its loop: open, the non-blocking flock (shared for
\*           'r', exclusive otherwise), and sleep(0.1) when either raises;
\*           None when the time is up                                  (78-92)
\*   body    the body of the with statement and the close of the file
DashNext(d, st, lk, t) ==
    CASE d.phase = "check" ->
           [dash |-> IF InvalidAmount(d.amount)
                     THEN [DashIdle EXCEPT !.result = "False"]
                     ELSE [d EXCEPT !.phase = "exists"],
            store |-> st, lock |-> lk]
      [] d.phase = "exists" ->
           [dash |-> IF ~st.exists
                     THEN [d EXCEPT !.phase = "create", !.mode = "w", !.at = "enter"]
                     ELSE [d EXCEPT !.phase = "load", !.mode = "r", !.at = "enter"],
            store |-> st, lock |-> lk]
      [] d.at = "enter" ->
           [dash |-> IF ~st.exists /\ d.mode = "r" THEN DashNone(d, "absent")
                     ELSE [d EXCEPT !.at = "try", !.waited = 0],
            store |-> st, lock |-> lk]
      [] d.at = "try" ->
           IF TimedOut(d.waited)
           THEN [dash |-> DashNone(d, "timeout"), store |-> st, lock |-> lk]
           ELSE IF d.mode = "r" /\ ~st.exists
           THEN [dash |-> [d EXCEPT !.waited = @ + DASH_BACKOFF], store |-> st,
                 lock |-> lk]
           ELSE IF lk = "free"
           THEN [dash |-> [d EXCEPT !.at = "body"], store |-> OpenFile(st, d.mode),
                 lock |-> "dashboard"]
           ELSE [dash |-> [d EXCEPT !.waited = @ + DASH_BACKOFF],
                 store |-> OpenFile(st, d.mode), lock |-> lk]
      [] d.at = "body" ->
           LET b == DashBody(d, st, t)
           IN [dash |-> b.dash, store |-> b.store,
               lock |-> IF lk = "dashboard" THEN "free" ELSE lk]

ContendAmounts == {0, 100 * MoneyScale}
ContendStores == {NoFile, File(<<header>>)}
ContendRow == <<session_id, 0, "BTC", 1000, 1000, ZeroDelta, "HOLD",
                1000 * MoneyScale, "SCAN", 0, "N/A", 1000 * MoneyScale>>

\* The page is drawn (load_trading_data), or the deposit button is pressed.
DashStart ==
    /\ dash.op = "idle"
    /\ steps < MaxCalls
    /\ \E op \in {"read", "deposit"} :
         \E amount \in (IF op = "deposit" THEN ContendAmounts ELSE {0}) :
         dash' = IF op = "read"
                 THEN [DashIdle EXCEPT !.op = "read", !.phase = "load", !.mode = "r",
                                       !.at = "enter"]
                 ELSE [DashIdle EXCEPT !.op = "deposit", !.phase = "check",
                                       !.amount = amount]
    /\ steps' = steps + 1
    /\ UNCHANGED <<cash, portfolio_value, positions, state_saved, price_history,
                   fed, env, prices, store, lock, now, pc, todo, closes, last, proc>>

DashStep ==
    /\ dash.op # "idle"
    /\ \E n \in {DashNext(dash, store, lock, now)} :
          /\ dash' = n.dash
          /\ store' = n.store
          /\ lock' = n.lock
    /\ UNCHANGED <<cash, portfolio_value, positions, state_saved, price_history,
                   fed, env, prices, now, pc, todo, closes, steps, last, proc>>

\* The engine calls log_to_csv with a scan row.
StartAppend ==
    /\ proc.main.at = "idle"
    /\ steps < MaxCalls
    /\ proc' = [proc EXCEPT !.main = CallLog(@, ContendRow, "idle")]
    /\ steps' = steps + 1
    /\ UNCHANGED <<cash, portfolio_value, positions, state_saved, price_history,
                   fed, env, prices, store, lock, now, pc, todo, closes, last, dash>>

InitContend ==
    /\ proc = [ProcStart EXCEPT !.main.at = "idle"]
    /\ \E st \in ContendStores : InitEngine(1000 * MoneyScale, st)
    /\ price_history = [s \in Symbols |-> <<>>]
    /\ fed = price_history
    /\ env = DefaultEnv

NextContend ==
    \/ StartAppend
    \/ EngineStep
    \/ DashStart
    \/ DashStep

SpecContend == InitContend /\ [][NextContend]_vars

-----------------------------------------------------------------------------
(* The engine and the dashboard on one log file: claims                    *)

\* The dashboard has returned from load_trading_data, called to draw the page.
ReadReturned == dash.op = "idle" /\ dash.result \in {"data", "empty"}

\* C26: a read by the dashboard never waits: whatever the engine holds, its next
\* statement can run; it spends at most the timeout in its retry loop; a read
\* that found no file, or whose time ran out before the shared lock was free,
\* has returned no data; and no statement of a read changes the log file (it
\* neither creates it nor alters a line).
C26_BoundedSharedRead ==
    /\ [](/\ (dash.op = "read" => ENABLED DashStep)
          /\ dash.waited <= DASH_TIMEOUT
          /\ (ReadReturned /\ dash.none \in {"absent", "timeout"}
                => dash.result = "empty")
          /\ (ReadReturned /\ dash.none = "timeout" => dash.waited = DASH_TIMEOUT)
          /\ (ReadReturned /\ dash.result = "data" => dash.none = ""))
    /\ [][dash.op = "read" /\ dash' # dash => store' = store]_vars

\* C26 witness: a read has returned no data after the whole timeout, the engine
\* holding the exclusive lock all the while, and the log file is as it was.
C26_Witness ==
    /\ ReadReturned
    /\ dash.none = "timeout"
    /\ dash.result = "empty"
    /\ dash.waited = DASH_TIMEOUT
    /\ lock = "engine"

\* C26, the other case: a read that found no log file has returned no data and
\* there is still no file.
C26_WitnessAbsent ==
    ReadReturned /\ dash.none = "absent" /\ dash.result = "empty" /\ ~store.exists

\* C27: while it is inside log_to_csv the engine can always run its next
\* statement, also while the dashboard holds a lock on the log file: it is
\* never waiting for the lock without a bound, so that the call returns after
\* the statements of at most MAX_ATTEMPTS attempts.
C27_WriterLockBounded ==
    InLog(proc.main) => ENABLED EngineStep

\* s is a prefix of t
IsPrefix(s, t) == Len(s) <= Len(t) /\ SubSeq(t, 1, Len(s)) = s

\* C28: every step of the engine and of the dashboard leaves the lines the log
\* file had in place, as the first lines of the file (lines are only added at
\* the end).
C28_AppendOnly ==
    [][IsPrefix(store.lines, store'.lines)]_vars

-----------------------------------------------------------------------------
(* The dashboard's deposit and the running engine                          *)

\* The dashboard has accepted a deposit of an amount > 0: its DEPOSIT record is
\* in the log file.
DepositAccepted ==
    last.op = "make_deposit_transaction" /\ last.amount > 0 /\ last.ok

\* The DEPOSIT record carries the latest logged equity plus the amount.
DepositRecordEquity ==
    DepositAccepted =>
        /\ store.lines[Len(store.lines)] = last.row
        /\ last.row[12] = CurrentEquity(last.pre.store, last.pre.lock) + last.amount

\* C31: a deposit of a > 0 accepted through the dashboard is recorded with
\* equity = latest logged equity + a, and reaches the running engine: the
\* engine's cash and its equity (the equity field of the records it appends
\* afterwards) are increased by a.
C31_DashboardDepositReachesEngine ==
    /\ DepositRecordEquity
    /\ DepositAccepted =>
           /\ cash = last.pre.cash + last.amount
           /\ portfolio_value = last.pre.pv + last.amount

-----------------------------------------------------------------------------
(* The ledger under any settings: PORTFOLIO_INITIAL, RISK_PER_TRADE and     *)
(* FEE_PCT are read from the environment (bue_flashbot_virtual.py:32-40);   *)
(* entries at 100, exit evaluations and closes at 1 and at 200, deposits.   *)

\* RISK_PER_TRADE and FEE_PCT from 0 to 1: the defaults, the whole of cash in
\* one trade (with the default fee, without a fee, and with a fee that takes
\* the whole trade value), and no risk at all.
CashEnvChoices ==
    { DefaultEnv,
      [DefaultEnv EXCEPT !.RISK_PER_TRADE = RateScale],
      [DefaultEnv EXCEPT !.RISK_PER_TRADE = RateScale, !.FEE_PCT = 0],
      [DefaultEnv EXCEPT !.RISK_PER_TRADE = RateScale, !.FEE_PCT = RateScale],
      [DefaultEnv EXCEPT !.RISK_PER_TRADE = 0] }
\* PORTFOLIO_INITIAL: nothing, less than the minimum trade size, and 100
CashInitials == {0, 5 * MoneyScale, 100 * MoneyScale}
CashSymbols == {"BTC", "ETH"}
CashEntryPrices == {100}
CashClosePrices == {1, 200}
CashPriceMaps == {BothAt(1), BothAt(200)}
CashAmounts == {0 - 50 * MoneyScale, 100 * MoneyScale}

InitCash ==
    /\ proc = ProcStart
    /\ \E c \in CashInitials : InitEngine(c, File(<<header>>))
    /\ price_history = [s \in Symbols |-> <<>>]
    /\ fed = price_history
    /\ env \in CashEnvChoices

NextCash ==
    \/ \E symbol \in CashSymbols, signal \in {"BUY", "SELL"},
          price \in CashEntryPrices, delta \in LedgerDeltas :
         ExecuteTrade(symbol, signal, price, delta)
    \/ \E pm \in CashPriceMaps : ManagePositions(pm)
    \/ \E symbol \in CashSymbols, price \in CashClosePrices :
         ClosePosition(symbol, price, "TAKE_PROFIT")
    \/ \E amount \in CashAmounts : DepositFunds(amount)

SpecCash == InitCash /\ [][NextCash]_vars

\* C32: cash is never negative, whatever the initial cash (>= 0), the risk
\* fraction and the fee rate (both in [0, 1]) and the (positive) prices of the
\* entries, exit evaluations and closes, and whatever deposits are made.
C32_CashNeverNegative ==
    /\ cash >= 0
    /\ \A i \in 1..Len(positions) : positions[i].trade_value >= 0

\* C32 witness: an entry has taken the whole of cash (RISK_PER_TRADE = 1):
\* a position was opened and cash went from a positive amount to exactly 0.
C32_Witness ==
    /\ last.op = "execute_trade"
    /\ env.RISK_PER_TRADE = RateScale
    /\ ~HasPos(last.pre.positions, last.sym)
    /\ HasPos(positions, last.sym)
    /\ last.pre.cash > 0
    /\ cash = 0

\* C32, the close: a SHORT opened with the whole of cash is closed at twice
\* its entry price, at a loss, and cash is credited, not debited.
C32_WitnessShortClosedHigh ==
    /\ last.op \in {"close_position", "manage_positions"}
    /\ Len(last.pre.positions) = 1
    /\ last.pre.positions[1].side = "SELL"
    /\ positions = <<>>
    /\ last.res[1] < 0
    /\ last.pre.cash = 0
    /\ cash > 0

-----------------------------------------------------------------------------
(* The hold of a position: the cycle loop of run_simulation started with    *)
(* TRADE_DURATION=30 in the environment (the max-hold duration equal to     *)
(* SCAN_INTERVAL), so that a position opened in one cycle has reached its   *)
(* max-hold duration in the next.  The feed is never empty.  "while True"   *)
(* keeps running: the loop is weakly fair.                                  *)

HoldEnv == [DefaultEnv EXCEPT !.TRADE_DURATION = SCAN_INTERVAL]
HoldSymbols == {"BTC", "ETH"}
HoldFeeds == { <<<<"BTC", 1200>>, <<"ETH", 1200>>>>,
               <<<<"ETH", 1200>>>>,
               <<<<"BTC", 1000>>, <<"ETH", 1000>>>> }
HoldNoise == {0 - NOISE_MAX, 0, NOISE_MAX}

InitHold ==
    /\ proc = ProcStart
    /\ InitEngine(1000 * MoneyScale, File(<<header>>))
    /\ \E hb \in WarmHistories, he \in WarmHistories :
         price_history = [s \in Symbols |-> IF s = "BTC" THEN hb
                                            ELSE IF s = "ETH" THEN he ELSE <<>>]
    /\ fed = price_history
    /\ env = HoldEnv

NextHold ==
    \/ \E pm \in HoldFeeds : Fetch(pm)
    \/ \E random_component \in HoldNoise : ProcessSymbol(random_component)

\* A pass of the for statement can be taken: an entry of self.prices is left.
PassEnabled == pc = "symbols" /\ Len(todo) > 0

\* "while True" and "for symbol, price in self.prices.items()" go on: weak
\* fairness of the fetch, and of the pass of the for statement (written out
\* with PassEnabled, the condition under which a pass can be taken).
LoopFair ==
    /\ WF_vars(\E pm \in HoldFeeds : Fetch(pm))
    /\ \/ []<>(~PassEnabled)
       \/ []<><<\E random_component \in HoldNoise : ProcessSymbol(random_component)>>_vars

SpecHold == InitHold /\ [][NextHold]_vars /\ LoopFair

\* The place of the position of symbol sym among the open positions, in the
\* order manage_positions goes through them
IndexOf(ps, sym) == CHOOSE i \in 1..Len(ps) : ps[i].symbol = sym

\* The position has reached its max-hold duration at time t.
Overdue(pos, t) == t - pos.timestamp >= env.TRADE_DURATION

\* The passes of the for statement still to come in which the position will
\* have reached its max-hold duration: those left in this cycle and one at
\* least in each cycle left, when it has reached it now; one at least in each
\* cycle left, when it reaches it with the sleep that ends this cycle.
PassesLeft(pos) ==
    IF Overdue(pos, now) THEN Len(todo) + (MaxCycles - steps)
    ELSE IF pc = "symbols" /\ Overdue(pos, now + SCAN_INTERVAL) THEN MaxCycles - steps
    ELSE 0

\* C33: every open position is eventually closed.  A pass of the for statement
\* closes an open position that has reached its max-hold duration, or closes
\* one that is before it in the open set (so that it moves one place up): no
\* position opened meanwhile comes before it.  And an open position that has
\* as many passes to come as its place in the open set is closed.
C33_EveryPositionEventuallyClosed ==
    /\ [][last'.op = "process_symbol" =>
            \A i \in 1..Len(positions) :
               Overdue(positions[i], now) =>
                  \/ ~HasPos(positions', positions[i].symbol)
                  \/ IndexOf(positions', positions[i].symbol) < i]_vars
    /\ \A sym \in HoldSymbols :
         (/\ HasPos(positions, sym)
          /\ PassesLeft(PosOf(positions, sym)) >= IndexOf(positions, sym))
           ~> ~HasPos(positions, sym)

\* C33 witness: a position whose price has not moved since its entry has been
\* closed by the time-based exit.
C33_Witness ==
    /\ last.op = "process_symbol"
    /\ last.res[3] = "TIMED_EXIT"
    /\ Len(positions) < Len(last.pre.positions) + (IF last.entered THEN 1 ELSE 0)

\* C33, the other positions: a pass has closed the first of two positions that
\* had both reached the max-hold duration, and the second is first now.
C33_WitnessSecondWaits ==
    /\ last.op = "process_symbol"
    /\ last.res[2] # "NONE"
    /\ Len(last.pre.positions) = 2
    /\ Overdue(last.pre.positions[2], last.pre.now)
    /\ Len(positions) >= 1
    /\ positions[1].symbol = last.pre.positions[2].symbol

-----------------------------------------------------------------------------
(* The equity field of the engine's records                                *)

\* cash + the unrealized P&L of the open positions ps at the price map pm
LedgerEquity(c, ps, pm) == c + SumUnrealized(ps, pm, 1)

\* The last operation was a pass of the for statement; its records are the
\* rows it handed to log_to_csv, in order.
PassRecords == IF last.op = "process_symbol" THEN last.log ELSE <<>>

\* The ledger right after the entry of the pass: cash less the trade value,
\* and the positions open before the pass with the new one.
CashAfterEntry == last.pre.cash - MulRate(last.pre.cash, env.RISK_PER_TRADE)
NetTradeValueOfEntry ==
    MulRate(last.pre.cash, env.RISK_PER_TRADE)
    - MulRate(MulRate(last.pre.cash, env.RISK_PER_TRADE), env.FEE_PCT)
PositionsAfterEntry ==
    Append(last.pre.positions,
           [symbol |-> last.sym, entry_price |-> last.price,
            quantity |-> [n |-> NetTradeValueOfEntry, d |-> last.price],
            timestamp |-> last.pre.now, peak_price |-> last.price, side |-> last.sig,
            trade_value |-> NetTradeValueOfEntry])

\* The equity of the SCAN record is the ledger equity at the cycle's price map.
ScanRecordEquity ==
    \A i \in 1..Len(PassRecords) :
       PassRecords[i].row[9] = "SCAN" =>
          PassRecords[i].row[12] = LedgerEquity(cash, positions, last.pm)

\* The equity of the OPEN record is the ledger equity right after the entry.
OpenRecordEquity ==
    \A i \in 1..Len(PassRecords) :
       PassRecords[i].row[9] = "OPEN" =>
          PassRecords[i].row[12] =
             LedgerEquity(CashAfterEntry, PositionsAfterEntry, last.pm)

\* The equity of a CLOSE record is the ledger equity right after the position
\* is removed (nothing changes the ledger between the removal and the end of
\* the pass).
CloseRecordEquity ==
    \A i \in 1..Len(PassRecords) :
       IsCloseRecord(PassRecords[i].row) =>
          PassRecords[i].row[12] = LedgerEquity(cash, positions, last.pm)

\* C34: the equity field of every record of a pass (OPEN, CLOSE_<SIDE>, SCAN)
\* is cash plus the unrealized P&L of exactly the positions open after the
\* recorded event, valued at the cycle's price map.
C34_RecordEquityIsLedgerEquity ==
    /\ ScanRecordEquity
    /\ OpenRecordEquity
    /\ CloseRecordEquity

-----------------------------------------------------------------------------
(* Peak tracking: entries at 100 on either side, exit evaluations at 99,    *)
(* 101 and 102 (inside the stop and take-profit thresholds of a position    *)
(* opened at 100), and closes, under the default settings.                  *)

PeakSymbols == {"BTC", "ETH"}
PeakEntryPrices == {100}
PeakPriceMaps == {BothAt(99), BothAt(101), BothAt(102), <<<<"BTC", 102>>>>}
PeakClosePrices == {101}

InitPeak ==
    /\ proc = ProcStart
    /\ InitEngine(1000 * MoneyScale, File(<<header>>))
    /\ price_history = [s \in Symbols |-> <<>>]
    /\ fed = price_history
    /\ env = DefaultEnv

NextPeak ==
    \/ \E symbol \in PeakSymbols, signal \in {"BUY", "SELL"},
          price \in PeakEntryPrices, delta \in LedgerDeltas :
         ExecuteTrade(symbol, signal, price, delta)
    \/ \E pm \in PeakPriceMaps : ManagePositions(pm)
    \/ \E symbol \in PeakSymbols, price \in PeakClosePrices :
         ClosePosition(symbol, price, "TAKE_PROFIT")

SpecPeak == InitPeak /\ [][NextPeak]_vars

\* The peak of an open position is on the right side of its entry price.
PeakBeyondEntry(pos) ==
    /\ pos.side = "BUY" => pos.peak_price >= pos.entry_price
    /\ pos.side = "SELL" => pos.peak_price <= pos.entry_price

\* From p to q, the same position one step later: the peak has not moved back
\* and nothing else has changed.
PeakKept(p, q) ==
    /\ p.side = "BUY" => q.peak_price >= p.peak_price
    /\ p.side = "SELL" => q.peak_price <= p.peak_price
    /\ q.entry_price = p.entry_price
    /\ q.quantity = p.quantity
    /\ q.side = p.side
    /\ q.trade_value = p.trade_value
    /\ q.timestamp = p.timestamp

\* C35: for every open LONG peak_price >= entry_price and for every open SHORT
\* peak_price <= entry_price; over every step a position that stays open keeps
\* its entry price, quantity, side and committed value, and its peak does not
\* decrease (LONG) or increase (SHORT).
C35_PeakTracking ==
    /\ [](\A i \in 1..Len(positions) : PeakBeyondEntry(positions[i]))
    /\ [][\A i \in 1..Len(positions) :
             HasPos(positions', positions[i].symbol) =>
                PeakKept(positions[i], PosOf(positions', positions[i].symbol))]_vars

\* C35 witness: an exit evaluation at a price under the peak of a LONG that has
\* risen above its entry price has left the position open with its peak.
C35_Witness ==
    /\ last.op = "manage_positions"
    /\ \E i \in 1..Len(positions) :
          /\ positions[i].side = "BUY"
          /\ positions[i].peak_price > positions[i].entry_price
          /\ HasKey(last.pm, positions[i].symbol)
          /\ PGet(last.pm, positions[i].symbol, 0) < positions[i].peak_price
          /\ HasPos(last.pre.positions, positions[i].symbol)
          /\ PosOf(last.pre.positions, positions[i].symbol).peak_price
                = positions[i].peak_price

\* C35, the SHORT: an exit evaluation under the entry price of a SHORT has
\* left it open with its peak under its entry price.
C35_WitnessShort ==
    /\ last.op = "manage_positions"
    /\ \E i \in 1..Len(positions) :
          /\ positions[i].side = "SELL"
          /\ positions[i].peak_price < positions[i].entry_price

-----------------------------------------------------------------------------
(* Writes and the exclusive lock                                            *)

\* A step adds a record to the log file: one line more, and not the header.
RowAdded ==
    /\ Len(store'.lines) = Len(store.lines) + 1
    /\ store'.lines[Len(store'.lines)] # header

\* A record is added only by a process that holds the lock on the log file.
RowAddedUnderLock ==
    RowAdded => \/ dash' # dash /\ lock = "dashboard"
                \/ proc' # proc /\ lock = "engine"

\* The engine ends an attempt of log_to_csv on a file with the expected header:
\* it holds the exclusive lock and the step releases it.
EngineReleases ==
    /\ proc.main.at = "read"
    /\ lock = "engine"
    /\ lock' # "engine"
    /\ FirstLine(store) = header

\* C36: every write of a record takes effect while the writer holds the
\* exclusive lock: a record is added to the log file only by a step of the
\* process that holds the lock, and when the engine releases the lock it took
\* for a write, the row is in the log file.
C36_WriteTakesEffectUnderLock ==
    [][/\ RowAddedUnderLock
       /\ EngineReleases =>
             /\ RowAdded
             /\ store'.lines[Len(store'.lines)] = proc.main.row]_vars

-----------------------------------------------------------------------------
(* The first cycles of a symbol: the cycle loop of run_simulation before    *)
(* the symbols have ten samples.  The feed quotes BTC at 0.00001000 or      *)
(* 0.00001200 and a low-priced coin at 0.00000063 (prices are in units of   *)
(* 1e-8, the precision of round(bue_value, 8)).  A symbol starts with no    *)
(* sample, or with four: with fewer than five samples the value is the      *)
(* price itself (188-189), the signal is HOLD and nothing has been traded.  *)

WarmupFeeds == { <<<<"BTC", 1000>>, <<"SOL", 63>>>>,
                 <<<<"BTC", 1200>>, <<"SOL", 63>>>>,
                 <<<<"SOL", 63>>>> }
WarmupNoise == {0 - NOISE_MAX, 0, NOISE_MAX}
WarmupHistories(p) == { <<>>, [i \in 1..(MIN_SAMPLES - 1) |-> p] }

InitWarmup ==
    /\ proc = ProcStart
    /\ InitEngine(1000 * MoneyScale, File(<<header>>))
    /\ \E hb \in WarmupHistories(1000), hs \in WarmupHistories(63) :
         price_history = [s \in Symbols |-> IF s = "BTC" THEN hb
                                            ELSE IF s = "SOL" THEN hs ELSE <<>>]
    /\ fed = price_history
    /\ env = DefaultEnv

NextWarmup ==
    \/ \E pm \in WarmupFeeds : Fetch(pm)
    \/ \E random_component \in WarmupNoise : ProcessSymbol(random_component)

SpecWarmup == InitWarmup /\ [][NextWarmup]_vars

\* The last operation was a pass of the for statement for a symbol that has
\* fewer than ten samples, the one of this pass included.
PassBeforeTenthSample ==
    /\ last.op = "process_symbol"
    /\ Len(fed[last.sym]) < TREND_SAMPLES

\* |delta| of the last pass is at most the noise bound, 0.8 (percent).
DeltaWithinNoise ==
    /\ last.delta.n * 10 <= 8 * last.delta.d
    /\ last.delta.n * 10 >= (0 - 8) * last.delta.d

\* C37: in the cycle loop no position is opened for a symbol before its tenth
\* price sample: the signal is HOLD, no entry is attempted and no position of
\* the symbol appears.
C37_NoEntryBeforeTenthSample ==
    PassBeforeTenthSample =>
        /\ last.sig = "HOLD"
        /\ ~last.entered
        /\ ~(HasPos(positions, last.sym) /\ ~HasPos(last.pre.positions, last.sym))

\* The bound the claim derives it from: before the tenth sample |delta| is at
\* most 0.8.
C37_DeltaWithinNoiseBeforeTenthSample == PassBeforeTenthSample => DeltaWithinNoise

\* The same for the passes of a symbol quoted at 0.00001000 or more, where the
\* rounding to 1e-8 moves the value by 0.05 percent of the price at most:
\* there the signal is HOLD and no entry is attempted.
C37_HoldsAboveRoundingScale ==
    (PassBeforeTenthSample /\ last.price >= 1000) =>
        /\ last.sig = "HOLD"
        /\ ~last.entered

\* A position opened on the fifth sample of a symbol quoted at 0.00000063.
C37_EntryOnFifthSample ==
    /\ last.op = "process_symbol"
    /\ Len(fed[last.sym]) = MIN_SAMPLES
    /\ last.price = 63
    /\ last.entered
    /\ HasPos(positions, last.sym)
    /\ ~HasPos(last.pre.positions, last.sym)

-----------------------------------------------------------------------------
(* The stops: entries at 100 on either side and exit evaluations around the *)
(* two stop thresholds, in runs started with different TRAILING_STOP_PCT    *)
(* and STOP_LOSS_PCT in the environment: the defaults 0.02 and 0.03, both   *)
(* 0.03, 0.01 and 0.03, and 0.03 and 0.02 (the trailing stop the wider).    *)

StopEnvChoices ==
    { DefaultEnv,
      [DefaultEnv EXCEPT !.TRAILING_STOP_PCT = 300],
      [DefaultEnv EXCEPT !.TRAILING_STOP_PCT = 100],
      [DefaultEnv EXCEPT !.TRAILING_STOP_PCT = 300, !.STOP_LOSS_PCT = 200] }
StopSymbols == {"BTC", "ETH"}
StopEntryPrices == {100}
StopPriceMaps == { BothAt(90), BothAt(97), BothAt(98), BothAt(101),
                   BothAt(103), BothAt(110), <<<<"BTC", 99>>>> }

InitStops ==
    /\ proc = ProcStart
    /\ InitEngine(1000 * MoneyScale, File(<<header>>))
    /\ price_history = [s \in Symbols |-> <<>>]
    /\ fed = price_history
    /\ env \in StopEnvChoices

NextStops ==
    \/ \E symbol \in StopSymbols, signal \in {"BUY", "SELL"},
          price \in StopEntryPrices, delta \in LedgerDeltas :
         ExecuteTrade(symbol, signal, price, delta)
    \/ \E pm \in StopPriceMaps : ManagePositions(pm)

SpecStops == InitStops /\ [][NextStops]_vars

\* The call of manage_positions that was the last operation closed a position
\* with the given reason.
ClosedWith(reason) ==
    /\ last.op = "manage_positions"
    /\ last.res[2] # "NONE"
    /\ last.res[3] = reason

\* The position the last call closed, as it was before the call, and the price
\* the call saw for it (441-442).
ClosedPos ==
    last.pre.positions[CHOOSE i \in 1..Len(last.pre.positions) :
                          ~HasPos(positions, last.pre.positions[i].symbol)]
ClosedAt == PGet(last.pm, ClosedPos.symbol, ClosedPos.entry_price)

\* C38: whenever TRAILING_STOP_PCT is at most STOP_LOSS_PCT, no position, LONG
\* or SHORT, is closed with reason STOP_LOSS: a price that meets the stop-loss
\* rule meets the trailing-stop rule, which is checked first.
C38_StopLossNeverTheReason ==
    env.TRAILING_STOP_PCT <= env.STOP_LOSS_PCT => ~ClosedWith("STOP_LOSS")

\* C38 witness: with the trailing stop at most the stop loss, a LONG was
\* closed at a price that meets the stop-loss rule, with reason TRAILING_STOP.
C38_Witness ==
    /\ env.TRAILING_STOP_PCT <= env.STOP_LOSS_PCT
    /\ ClosedWith("TRAILING_STOP")
    /\ ClosedPos.side = "BUY"
    /\ StopLossHit(ClosedPos, ClosedAt)

\* C38, the SHORT
C38_WitnessShort ==
    /\ env.TRAILING_STOP_PCT <= env.STOP_LOSS_PCT
    /\ ClosedWith("TRAILING_STOP")
    /\ ClosedPos.side = "SELL"
    /\ StopLossHit(ClosedPos, ClosedAt)

\* C38, the premise: in a run started with the trailing stop wider than the
\* stop loss a position is closed with reason STOP_LOSS.
C38_WitnessWiderTrailing ==
    /\ env.TRAILING_STOP_PCT > env.STOP_LOSS_PCT
    /\ ClosedWith("STOP_LOSS")

=============================================================================
